---- MODULE Spec2Model ----
(***************************************************************************)
(* Model of moxie-ai's plugin registry (src/plugins/loader.rs) and of the  *)
(* chat engine's tool-calling loop (src/core/chat.rs).                     *)
(*                                                                         *)
(* SpecRegistry: the PluginLoader, one step per stretch of code between    *)
(*               two awaits of a registry operation.                       *)
(* SpecChat:     one turn of ChatEngine::chat against the legacy           *)
(*               PluginRegistry and the MemoryStore.                       *)
(* SpecLifecycle: the lifecycle of three plugins and PluginLoader::execute.*)
(* SpecShared:   requests sharing the loader behind its RwLock.            *)
(* SpecVersion, SpecManifest: Version::is_compatible_with and register()   *)
(*               on every version pair and manifest of a bounded set.      *)
(***************************************************************************)
EXTENDS Integers, Sequences, FiniteSets, Bags, TLC

VARIABLES
    plugins,        \* PluginLoader.plugins: id -> LoadedPlugin
    load_counter,   \* PluginLoader.load_counter
    op,             \* the registry operation in progress and the hook it awaits
    ret,            \* the registry operation that returned last, and its result
    last_shutdown,  \* history: the id of the plugin whose shutdown completed last
    memory,          \* MemoryStore: the rows of table messages, in insertion order
    now,             \* the wall clock datetime('now') reads, in whole seconds
    pc,              \* ChatEngine::chat: the await the turn is suspended in
    request,         \* chat's argument
    conversation_id, \* chat's local conversation_id
    messages,        \* chat's local working message list
    iterations,      \* chat's local iterations
    tool_calls_made, \* chat's local tool_calls_made
    pending,         \* the tool calls for tool_call in tool_calls has still to visit
    response,        \* chat's local response, the last answer of the language model
    dispatch_result, \* chat's local result, what plugins.execute returned last
    result,          \* what chat returned
    llm_calls,       \* history: the number of calls of provider.chat
    dispatched,      \* history: the tool calls handed to plugins.execute, in order
    args,            \* the arguments of a call of a function of manifest.rs
    value,           \* what the call returned
    guard,           \* per request: the guard it holds on the RwLock of the shared loader
    running,         \* per request: the PluginLoader method it is executing
    turns            \* per concurrent turn of one conversation: where chat is, its locals

regVars == <<plugins, load_counter, op, ret, last_shutdown>>
chatVars == <<memory, now, pc, request, conversation_id, messages, iterations, tool_calls_made,
              pending, response, dispatch_result, result, llm_calls, dispatched>>
fnVars == <<args, value>>
lockVars == <<guard, running>>
turnVars == <<turns>>
vars == <<regVars, chatVars, fnVars, lockVars, turnVars>>

(***************************************************************************)
(* Versions and manifests (src/plugins/manifest.rs)                        *)
(***************************************************************************)
Version(major, minor, patch) == [major |-> major, minor |-> minor, patch |-> patch]

\* variant of is_compatible_with: the patch is not compared
is_compatible_with_IgnoringPatch(self, required) ==
    IF self.major # required.major THEN FALSE
    ELSE IF self.minor < required.minor THEN FALSE
    ELSE TRUE

\* Version::is_compatible_with
is_compatible_with(self, required) ==
    IF self.major # required.major THEN FALSE
    ELSE IF self.minor < required.minor THEN FALSE
    ELSE IF self.minor = required.minor /\ self.patch < required.patch THEN FALSE
    ELSE TRUE

\* Version::default
DefaultVersion == Version(0, 1, 0)

\* char::is_alphanumeric on the characters the model uses: letters and digits
\* of any script are alphanumeric, blanks and punctuation are not.
is_alphanumeric(c) == c \in {"a", "b", "c", "e", "z", "A", "7", "e_acute"}

\* PluginManifest::validate: Ok, or the error text
validate(m) ==
    IF m.id = <<>> THEN "Plugin ID cannot be empty"
    ELSE IF m.name = "" THEN "Plugin name cannot be empty"
    ELSE IF m.description = "" THEN "Plugin description cannot be empty"
    ELSE IF ~ \A i \in 1..Len(m.id) :
                is_alphanumeric(m.id[i]) \/ m.id[i] = "." \/ m.id[i] = "-" \/ m.id[i] = "_"
         THEN "Plugin ID contains invalid characters"
    ELSE "Ok"

\* PluginManifest::new, with the builder's with_version and dependencies
Manifest(id, name, description, version, dependencies, confirm) ==
    [id |-> id, name |-> name, description |-> description, version |-> version,
     dependencies |-> dependencies, requires_confirmation |-> confirm]

NoDeps == [d \in {} |-> DefaultVersion]

(***************************************************************************)
(* The plugin instances a caller may hand to register(). An id is the      *)
(* sequence of its characters.                                             *)
(***************************************************************************)
IdA == <<"a">>
IdB == <<"b">>
IdC == <<"c">>
IdE == <<"e">>
IdZ == <<"z">>
IdBad == <<"b", " ", "!">>

PluginA  == [manifest |-> Manifest(IdA, "A", "plugin a", Version(1, 2, 3), NoDeps, FALSE),
             tools |-> <<"a_tool", "shared_tool">>]
\* another instance with the id of PluginA
PluginA2 == [manifest |-> Manifest(IdA, "A2", "plugin a, major 2", Version(2, 0, 0), NoDeps, FALSE),
             tools |-> <<"a2_tool">>]
\* needs a >= 1.2.0
PluginB  == [manifest |-> Manifest(IdB, "B", "plugin b", DefaultVersion,
                                   (IdA :> Version(1, 2, 0)), TRUE),
             tools |-> <<"b_tool", "shared_tool">>]
\* needs a >= 1.3.0, which PluginA (1.2.3) does not satisfy, and b
PluginC  == [manifest |-> Manifest(IdC, "C", "plugin c", DefaultVersion,
                                   (IdA :> Version(1, 3, 0)) @@ (IdB :> Version(0, 1, 0)), FALSE),
             tools |-> <<"c_tool">>]
\* no dependency
PluginE  == [manifest |-> Manifest(IdE, "E", "plugin e", DefaultVersion, NoDeps, FALSE),
             tools |-> <<"e_tool">>]
\* needs z, which nobody registers
PluginZDep == [manifest |-> Manifest(IdC, "C2", "plugin c needing z", DefaultVersion,
                                   (IdZ :> Version(0, 1, 0)), FALSE),
             tools |-> <<"c_tool">>]
\* manifest with an id that validate() rejects
PluginBad == [manifest |-> Manifest(IdBad, "Bad", "bad id", DefaultVersion, NoDeps, FALSE),
             tools |-> <<"bad_tool">>]

Catalog == {PluginA, PluginA2, PluginB, PluginC, PluginE, PluginZDep, PluginBad}

\* the ids a caller may pass to init_plugin, enable_plugin, ...
CallIds == {IdA, IdB, IdE, IdZ}

\* the plugins and configurations register_with_config is called with
Configured == {PluginA, PluginA2}
Configs == {"cfg1"}
EmptyConfig == "{}"

ToolNames == {"a_tool", "a2_tool", "b_tool", "c_tool", "e_tool", "bad_tool", "shared_tool"}

(***************************************************************************)
(* Registry state                                                          *)
(***************************************************************************)
PluginStates == {"Registered", "Initializing", "Active", "Disabled", "Error", "ShuttingDown"}

NoId == <<>>
NoPlugin == [manifest |-> Manifest(NoId, "", "", DefaultVersion, NoDeps, FALSE), tools |-> <<>>]
Ok == <<"Ok">>

\* no operation holds the registry (no &mut borrow, no write lock)
Idle == [name |-> "idle", hook |-> "none", cur |-> NoId, queue |-> <<>>]
\* operation name is suspended in the await of hook of plugin id;
\* queue holds the ids the loop of init_all / shutdown_all has still to visit
Awaiting(name, hook, id, queue) == [name |-> name, hook |-> hook, cur |-> id, queue |-> queue]

\* the result an operation returned: id is its id argument (NoId for the bulk
\* operations), plugin the instance given to register
Returned(name, id, p, res) == [op |-> name, arg |-> id, plugin |-> p, res |-> res]
NoRet == Returned("none", NoId, NoPlugin, Ok)

\* LoadedPlugin
LoadedPlugin(p, state, config, load_order) ==
    [plugin |-> p, state |-> state, config |-> config, load_order |-> load_order]

\* HashMap::insert: an existing entry is replaced
Insert(pl, id, v) == [x \in DOMAIN pl \cup {id} |-> IF x = id THEN v ELSE pl[x]]

SetState(pl, id, s) == [pl EXCEPT ![id].state = s]

\* PluginLoader::new
RegistryInit ==
    /\ plugins = [id \in {} |-> NoPlugin]
    /\ load_counter = 0
    /\ op = Idle
    /\ ret = NoRet
    /\ last_shutdown = NoId

(***************************************************************************)
(* register, register_with_config                                          *)
(***************************************************************************)
\* variant of DependencyErrors: the version of a registered dependency is not compared
DependencyErrors_AnyVersion(pl, m) ==
    {<<"ExecutionFailed", "not loaded">> :
        d \in {x \in DOMAIN m.dependencies : x \notin DOMAIN pl}}

\* variant of DependencyErrors: the dependencies are not looked at
DependencyErrors_Unchecked(pl, m) == {}

\* the dependency loop of register: the errors it can return, one for each
\* dependency that fails (the HashMap of dependencies is visited in any order)
DependencyErrors(pl, m) ==
    {<<"ExecutionFailed", "not loaded">> :
        d \in {x \in DOMAIN m.dependencies : x \notin DOMAIN pl}}
    \cup
    {<<"ExecutionFailed", "requires version">> :
        d \in {x \in DOMAIN m.dependencies :
                 /\ x \in DOMAIN pl
                 /\ ~ is_compatible_with(pl[x].plugin.manifest.version, m.dependencies[x])}}

\* variant of RegisterOutcomes: no check for duplicates
RegisterOutcomes_NoDuplicateCheck(pl, p) ==
    IF validate(p.manifest) # "Ok" THEN {<<"InvalidParameters", validate(p.manifest)>>}
    ELSE IF DependencyErrors(pl, p.manifest) # {} THEN DependencyErrors(pl, p.manifest)
    ELSE {Ok}

\* the checks of register, in the order of the code: Ok or the errors
RegisterOutcomes(pl, p) ==
    IF validate(p.manifest) # "Ok" THEN {<<"InvalidParameters", validate(p.manifest)>>}
    ELSE IF p.manifest.id \in DOMAIN pl THEN {<<"ExecutionFailed", "already registered">>}
    ELSE IF DependencyErrors(pl, p.manifest) # {} THEN DependencyErrors(pl, p.manifest)
    ELSE {Ok}

\* variant of Registered: a rejected registration advances the counter too
Registered_CountingRejected(pl, counter, p, r) ==
    IF r = Ok
    THEN [plugins |-> Insert(pl, p.manifest.id,
                             LoadedPlugin(p, "Registered", EmptyConfig, counter + 1)),
          load_counter |-> counter + 1]
    ELSE [plugins |-> pl, load_counter |-> counter + 1]

\* register(plugin): the registry after it, for outcome r
Registered(pl, counter, p, r) ==
    IF r = Ok
    THEN [plugins |-> Insert(pl, p.manifest.id,
                             LoadedPlugin(p, "Registered", EmptyConfig, counter + 1)),
          load_counter |-> counter + 1]
    ELSE [plugins |-> pl, load_counter |-> counter]

register(p) ==
    /\ op = Idle
    /\ \E r \in RegisterOutcomes(plugins, p) :
         LET after == Registered(plugins, load_counter, p, r) IN
         /\ plugins' = after.plugins
         /\ load_counter' = after.load_counter
         /\ ret' = Returned("register", p.manifest.id, p, r)
    /\ UNCHANGED <<op, last_shutdown, chatVars, fnVars, lockVars, turnVars>>

\* register_with_config(plugin, config): register, then set the config
register_with_config(p, config) ==
    /\ op = Idle
    /\ \E r \in RegisterOutcomes(plugins, p) :
         LET after == Registered(plugins, load_counter, p, r)
             id == p.manifest.id IN
         /\ plugins' = IF r = Ok /\ id \in DOMAIN after.plugins
                       THEN [after.plugins EXCEPT ![id].config = config]
                       ELSE after.plugins
         /\ load_counter' = after.load_counter
         /\ ret' = Returned("register_with_config", id, p, r)
    /\ UNCHANGED <<op, last_shutdown, chatVars, fnVars, lockVars, turnVars>>

(***************************************************************************)
(* init_plugin, init_all                                                   *)
(***************************************************************************)
\* ids sorted by load_order, ascending (init_all) and descending (shutdown_all)
\* variant of Ascending: the largest load_order first
RECURSIVE Ascending_LargestFirst(_, _)
Ascending_LargestFirst(pl, S) ==
    IF S = {} THEN <<>>
    ELSE LET m == CHOOSE x \in S : \A y \in S : pl[x].load_order >= pl[y].load_order
         IN <<m>> \o Ascending_LargestFirst(pl, S \ {m})

RECURSIVE Ascending(_, _)
Ascending(pl, S) ==
    IF S = {} THEN <<>>
    ELSE LET m == CHOOSE x \in S : \A y \in S : pl[x].load_order <= pl[y].load_order
         IN <<m>> \o Ascending(pl, S \ {m})

\* variant of Descending: the smallest load_order first
RECURSIVE Descending_SmallestFirst(_, _)
Descending_SmallestFirst(pl, S) ==
    IF S = {} THEN <<>>
    ELSE LET m == CHOOSE x \in S : \A y \in S : pl[x].load_order <= pl[y].load_order
         IN <<m>> \o Descending_SmallestFirst(pl, S \ {m})

RECURSIVE Descending(_, _)
Descending(pl, S) ==
    IF S = {} THEN <<>>
    ELSE LET m == CHOOSE x \in S : \A y \in S : pl[x].load_order >= pl[y].load_order
         IN <<m>> \o Descending(pl, S \ {m})

\* variant of InitSkips: a plugin in Error is initialized again
InitSkips_RetryingError(pl, id) == pl[id].state \notin {"Registered", "Error"}

\* init_plugin returns Ok at once for a plugin that is not Registered
InitSkips(pl, id) == pl[id].state # "Registered"

\* shutdown_plugin returns Ok at once for a plugin neither Active nor Disabled
ShutdownSkips(pl, id) == pl[id].state # "Active" /\ pl[id].state # "Disabled"

\* the loop of init_all / shutdown_all up to its next await: the ids left from
\* the first one whose hook is to be called
RECURSIVE SkipInit(_, _)
SkipInit(pl, q) ==
    IF q = <<>> THEN q
    ELSE IF InitSkips(pl, Head(q)) THEN SkipInit(pl, Tail(q)) ELSE q

RECURSIVE SkipShutdown(_, _)
SkipShutdown(pl, q) ==
    IF q = <<>> THEN q
    ELSE IF ShutdownSkips(pl, Head(q)) THEN SkipShutdown(pl, Tail(q)) ELSE q

\* init_all from the ids queue on, in registry pl: to its next on_init or its end
ContinueInitAll(pl, queue) ==
    LET q == SkipInit(pl, queue) IN
    IF q = <<>>
    THEN /\ plugins' = pl
         /\ op' = Idle
         /\ ret' = Returned("init_all", NoId, NoPlugin, Ok)
    ELSE /\ plugins' = SetState(pl, Head(q), "Initializing")
         /\ op' = Awaiting("init_all", "on_init", Head(q), Tail(q))
         /\ ret' = ret

init_all ==
    /\ op = Idle
    /\ ContinueInitAll(plugins, Ascending(plugins, DOMAIN plugins))
    /\ UNCHANGED <<load_counter, last_shutdown, chatVars, fnVars, lockVars, turnVars>>

init_plugin(id) ==
    /\ op = Idle
    /\ IF id \notin DOMAIN plugins
       THEN /\ ret' = Returned("init_plugin", id, NoPlugin, <<"PluginNotFound">>)
            /\ UNCHANGED <<plugins, op>>
       ELSE IF InitSkips(plugins, id)
       THEN /\ ret' = Returned("init_plugin", id, NoPlugin, Ok)
            /\ UNCHANGED <<plugins, op>>
       ELSE /\ plugins' = SetState(plugins, id, "Initializing")
            /\ op' = Awaiting("init_plugin", "on_init", id, <<>>)
            /\ ret' = ret
    /\ UNCHANGED <<load_counter, last_shutdown, chatVars, fnVars, lockVars, turnVars>>

\* variant of AfterOnInit: a failed on_init leaves the state as it is
AfterOnInit_LeavingInitializing(ok) == IF ok THEN "Active" ELSE "Initializing"

\* the state init_plugin leaves the plugin in when on_init has returned
AfterOnInit(ok) == IF ok THEN "Active" ELSE "Error"

\* on_init of op.cur returns, Ok or an error: init_plugin goes on to its end,
\* and init_all to its next plugin or, on the error, to its return
on_init_returns(ok) ==
    /\ op.hook = "on_init"
    /\ LET pl == SetState(plugins, op.cur, AfterOnInit(ok))
           arg == IF op.name = "init_all" THEN NoId ELSE op.cur IN
       IF ~ok
       THEN /\ plugins' = pl
            /\ op' = Idle
            /\ ret' = Returned(op.name, arg, NoPlugin, <<"HookFailed", "on_init">>)
       ELSE IF op.name = "init_plugin"
       THEN /\ plugins' = pl
            /\ op' = Idle
            /\ ret' = Returned(op.name, arg, NoPlugin, Ok)
       ELSE ContinueInitAll(pl, op.queue)
    /\ UNCHANGED <<load_counter, last_shutdown, chatVars, fnVars, lockVars, turnVars>>

(***************************************************************************)
(* shutdown_plugin, shutdown_all                                           *)
(***************************************************************************)
\* shutdown_all from the ids queue on: to its next on_shutdown or its end
ContinueShutdownAll(pl, queue) ==
    LET q == SkipShutdown(pl, queue) IN
    IF q = <<>>
    THEN /\ plugins' = pl
         /\ op' = Idle
         /\ ret' = Returned("shutdown_all", NoId, NoPlugin, Ok)
    ELSE /\ plugins' = SetState(pl, Head(q), "ShuttingDown")
         /\ op' = Awaiting("shutdown_all", "on_shutdown", Head(q), Tail(q))
         /\ ret' = ret

shutdown_all ==
    /\ op = Idle
    /\ ContinueShutdownAll(plugins, Descending(plugins, DOMAIN plugins))
    /\ UNCHANGED <<load_counter, last_shutdown, chatVars, fnVars, lockVars, turnVars>>

shutdown_plugin(id) ==
    /\ op = Idle
    /\ IF id \notin DOMAIN plugins
       THEN /\ ret' = Returned("shutdown_plugin", id, NoPlugin, <<"PluginNotFound">>)
            /\ UNCHANGED <<plugins, op>>
       ELSE IF ShutdownSkips(plugins, id)
       THEN /\ ret' = Returned("shutdown_plugin", id, NoPlugin, Ok)
            /\ UNCHANGED <<plugins, op>>
       ELSE /\ plugins' = SetState(plugins, id, "ShuttingDown")
            /\ op' = Awaiting("shutdown_plugin", "on_shutdown", id, <<>>)
            /\ ret' = ret
    /\ UNCHANGED <<load_counter, last_shutdown, chatVars, fnVars, lockVars, turnVars>>

\* variant of AfterOnShutdown: a failed on_shutdown moves the plugin to Error
AfterOnShutdown_ErrorOnFailure(ok) == IF ok THEN "Registered" ELSE "Error"

\* the state shutdown_plugin leaves the plugin in when on_shutdown has
\* returned: its error is logged only
AfterOnShutdown(ok) == "Registered"

\* on_shutdown of op.cur returns, Ok or an error
on_shutdown_returns(ok) ==
    /\ op.hook = "on_shutdown"
    /\ LET pl == SetState(plugins, op.cur, AfterOnShutdown(ok)) IN
       IF op.name = "shutdown_plugin"
       THEN /\ plugins' = pl
            /\ op' = Idle
            /\ ret' = Returned(op.name, op.cur, NoPlugin, Ok)
       ELSE ContinueShutdownAll(pl, op.queue)
    /\ last_shutdown' = op.cur
    /\ UNCHANGED <<load_counter, chatVars, fnVars, lockVars, turnVars>>

(***************************************************************************)
(* enable_plugin, disable_plugin                                           *)
(***************************************************************************)
\* variant of EnableSkips: on_enable is called whatever the state
EnableSkips_Never(pl, id) == FALSE

\* enable_plugin returns Ok at once for a plugin that is not Disabled
EnableSkips(pl, id) == pl[id].state # "Disabled"

\* disable_plugin returns Ok at once for a plugin that is not Active
DisableSkips(pl, id) == pl[id].state # "Active"

enable_plugin(id) ==
    /\ op = Idle
    /\ IF id \notin DOMAIN plugins
       THEN /\ ret' = Returned("enable_plugin", id, NoPlugin, <<"PluginNotFound">>)
            /\ op' = op
       ELSE IF EnableSkips(plugins, id)
       THEN /\ ret' = Returned("enable_plugin", id, NoPlugin, Ok)
            /\ op' = op
       ELSE /\ op' = Awaiting("enable_plugin", "on_enable", id, <<>>)
            /\ ret' = ret
    /\ UNCHANGED <<plugins, load_counter, last_shutdown, chatVars, fnVars, lockVars, turnVars>>

disable_plugin(id) ==
    /\ op = Idle
    /\ IF id \notin DOMAIN plugins
       THEN /\ ret' = Returned("disable_plugin", id, NoPlugin, <<"PluginNotFound">>)
            /\ op' = op
       ELSE IF DisableSkips(plugins, id)
       THEN /\ ret' = Returned("disable_plugin", id, NoPlugin, Ok)
            /\ op' = op
       ELSE /\ op' = Awaiting("disable_plugin", "on_disable", id, <<>>)
            /\ ret' = ret
    /\ UNCHANGED <<plugins, load_counter, last_shutdown, chatVars, fnVars, lockVars, turnVars>>

\* the state enable_plugin / disable_plugin leave a plugin of state s in when
\* the hook has returned: the ? operator returns the hook's error before the assignment
AfterOnEnable(s, ok) == IF ok THEN "Active" ELSE s

\* variant of AfterOnDisable: the state is assigned before the hook's error is
\* returned
AfterOnDisable_Assigning(s, ok) == "Disabled"

AfterOnDisable(s, ok) == IF ok THEN "Disabled" ELSE s

on_enable_returns(ok) ==
    /\ op.hook = "on_enable"
    /\ plugins' = SetState(plugins, op.cur, AfterOnEnable(plugins[op.cur].state, ok))
    /\ op' = Idle
    /\ ret' = Returned(op.name, op.cur, NoPlugin,
                       IF ok THEN Ok ELSE <<"HookFailed", "on_enable">>)
    /\ UNCHANGED <<load_counter, last_shutdown, chatVars, fnVars, lockVars, turnVars>>

on_disable_returns(ok) ==
    /\ op.hook = "on_disable"
    /\ plugins' = SetState(plugins, op.cur, AfterOnDisable(plugins[op.cur].state, ok))
    /\ op' = Idle
    /\ ret' = Returned(op.name, op.cur, NoPlugin,
                       IF ok THEN Ok ELSE <<"HookFailed", "on_disable">>)
    /\ UNCHANGED <<load_counter, last_shutdown, chatVars, fnVars, lockVars, turnVars>>

(***************************************************************************)
(* Readers of the registry                                                 *)
(***************************************************************************)
\* the bag of the elements of a sequence
SeqBag(seq) ==
    [t \in {seq[i] : i \in 1..Len(seq)} |-> Cardinality({i \in 1..Len(seq) : seq[i] = t})]

\* variant of Listed: a filter that lets Disabled plugins through
Listed_IncludingDisabled(pl) == {id \in DOMAIN pl : pl[id].state \in {"Active", "Disabled"}}

\* the plugins all_tools, list_active, execute keep: filter(|p| p.state == Active)
Listed(pl) == {id \in DOMAIN pl : pl[id].state = "Active"}

\* all_tools(): the tools of the Listed plugins, flat_map'ed into one Vec. The
\* order of a HashMap's values is unspecified: the Vec is modelled as the bag
\* of its tool names.
all_tools ==
    LET E == UNION {{<<id, i>> : i \in 1..Len(plugins[id].plugin.tools)} : id \in Listed(plugins)}
        name(e) == plugins[e[1]].plugin.tools[e[2]]
    IN  [t \in {name(e) : e \in E} |-> Cardinality({e \in E : name(e) = t})]

\* get_state(id)
get_state(id) == IF id \in DOMAIN plugins THEN plugins[id].state ELSE "None"

\* len()
len == Cardinality(DOMAIN plugins)

(***************************************************************************)
(* PluginLoader::execute                                                   *)
(***************************************************************************)
\* the tool names execute is called with
ExecutedTools == {"a_tool", "b_tool", "shared_tool", "nonexistent_tool"}

\* Plugin::has_tool
plugin_has_tool(p, tool) == \E i \in 1..Len(p.tools) : p.tools[i] = tool

\* variant of FoundForTool: no filter on the state
FoundForTool_AnyState(pl, tool) == {id \in DOMAIN pl : plugin_has_tool(pl[id].plugin, tool)}

\* the plugins the find of execute may stop at: the HashMap is visited in an
\* unspecified order, the first Active plugin with the tool is taken
FoundForTool(pl, tool) == {id \in Listed(pl) : plugin_has_tool(pl[id].plugin, tool)}

\* ToolResult::success, ToolResult::failure
ToolSuccess(output) == [success |-> TRUE, output |-> output, error |-> "None"]
ToolFailure(error) == [success |-> FALSE, output |-> "null", error |-> error]

\* what Plugin::execute of a plugin may return for one of its tools
PluginResults == {<<"Ok", ToolSuccess("output")>>,
                  <<"Ok", ToolFailure("Access denied")>>,
                  <<"Err", "ExecutionFailed">>}

NoResultYet == <<>>

\* execute(tool) is suspended in the await of hook of plugin id; called lists
\* the hooks called so far, warned tells whether the confirmation warning was
\* logged, result is what the plugin's execute returned
Executing(hook, id, tool, called, warned, r) ==
    [name |-> "execute", hook |-> hook, cur |-> id, queue |-> <<>>, tool |-> tool,
     called |-> called, warned |-> warned, result |-> r]

\* execute(tool) returned res
Executed(o, id, res) ==
    [op |-> "execute", arg |-> id, plugin |-> NoPlugin, res |-> res, tool |-> o.tool,
     called |-> o.called, warned |-> o.warned, result |-> o.result]

\* variant of loader_execute: a tool of a plugin that requires confirmation is
\* refused
loader_execute_Confirming(tool) ==
    /\ op = Idle
    /\ IF FoundForTool(plugins, tool) = {}
       THEN /\ ret' = Executed(Executing("none", NoId, tool, <<>>, FALSE, NoResultYet),
                               NoId, <<"ToolNotFound", tool>>)
            /\ op' = op
       ELSE \E id \in FoundForTool(plugins, tool) :
               IF plugins[id].plugin.manifest.requires_confirmation
               THEN /\ ret' = Executed(Executing("none", id, tool, <<>>, TRUE, NoResultYet),
                                       id, <<"ExecutionFailed", "confirmation required">>)
                    /\ op' = op
               ELSE /\ op' = Executing("before_execute", id, tool, <<"before_execute">>,
                                       FALSE, NoResultYet)
                    /\ ret' = ret
    /\ UNCHANGED <<plugins, load_counter, last_shutdown, chatVars, fnVars, lockVars, turnVars>>

\* execute(tool) up to its first await: the plugin is looked up, the warning
\* logged when its manifest requires confirmation, before_execute awaited
loader_execute(tool) ==
    /\ op = Idle
    /\ IF FoundForTool(plugins, tool) = {}
       THEN /\ ret' = Executed(Executing("none", NoId, tool, <<>>, FALSE, NoResultYet),
                               NoId, <<"ToolNotFound", tool>>)
            /\ op' = op
       ELSE /\ \E id \in FoundForTool(plugins, tool) :
                 op' = Executing("before_execute", id, tool, <<"before_execute">>,
                                 plugins[id].plugin.manifest.requires_confirmation,
                                 NoResultYet)
            /\ ret' = ret
    /\ UNCHANGED <<plugins, load_counter, last_shutdown, chatVars, fnVars, lockVars, turnVars>>

\* variant of before_execute_returns: the error of before_execute is dropped
before_execute_returns_IgnoringError(ok) ==
    /\ op.hook = "before_execute"
    /\ op' = [op EXCEPT !.hook = "execute", !.called = Append(@, "execute")]
    /\ ret' = ret
    /\ UNCHANGED <<plugins, load_counter, last_shutdown, chatVars, fnVars, lockVars, turnVars>>

\* before_execute returns: on an error execute returns it, else the plugin's
\* execute is awaited
before_execute_returns(ok) ==
    /\ op.hook = "before_execute"
    /\ IF ok
       THEN /\ op' = [op EXCEPT !.hook = "execute", !.called = Append(@, "execute")]
            /\ ret' = ret
       ELSE /\ op' = Idle
            /\ ret' = Executed(op, op.cur, <<"HookFailed", "before_execute">>)
    /\ UNCHANGED <<plugins, load_counter, last_shutdown, chatVars, fnVars, lockVars, turnVars>>

\* the plugin's execute returns r: on an error execute returns it, else
\* after_execute is awaited with the result
plugin_execute_returns(r) ==
    /\ op.name = "execute"
    /\ op.hook = "execute"
    /\ IF r[1] = "Ok"
       THEN /\ op' = [op EXCEPT !.hook = "after_execute", !.result = <<r[2]>>,
                                !.called = Append(@, "after_execute")]
            /\ ret' = ret
       ELSE /\ op' = Idle
            /\ ret' = Executed(op, op.cur, <<r[2], op.tool>>)
    /\ UNCHANGED <<plugins, load_counter, last_shutdown, chatVars, fnVars, lockVars, turnVars>>

\* what execute returns when after_execute has returned
AfterExecute(r, ok) == IF ok THEN <<"Ok", r>> ELSE <<"HookFailed", "after_execute">>

\* after_execute returns
after_execute_returns(ok) ==
    /\ op.hook = "after_execute"
    /\ op' = Idle
    /\ ret' = Executed(op, op.cur, AfterExecute(op.result[1], ok))
    /\ UNCHANGED <<plugins, load_counter, last_shutdown, chatVars, fnVars, lockVars, turnVars>>

(***************************************************************************)
(* The registry's specification                                            *)
(***************************************************************************)
Bool == {TRUE, FALSE}

RegistryNext ==
    \/ \E p \in Catalog : register(p)
    \/ \E p \in Configured, c \in Configs : register_with_config(p, c)
    \/ init_all
    \/ \E id \in CallIds : init_plugin(id)
    \/ \E ok \in Bool : on_init_returns(ok)
    \/ shutdown_all
    \/ \E id \in CallIds : shutdown_plugin(id)
    \/ \E ok \in Bool : on_shutdown_returns(ok)
    \/ \E id \in CallIds : enable_plugin(id)
    \/ \E id \in CallIds : disable_plugin(id)
    \/ \E ok \in Bool : on_enable_returns(ok)
    \/ \E ok \in Bool : on_disable_returns(ok)

\* the plugins registered where tools are executed
ExecCatalog == {PluginA, PluginB, PluginE}

\* the lifecycle operations and execute
LifecycleNext ==
    \/ \E p \in ExecCatalog : register(p)
    \/ init_all
    \/ \E id \in CallIds : init_plugin(id)
    \/ \E ok \in Bool : on_init_returns(ok)
    \/ shutdown_all
    \/ \E id \in CallIds : shutdown_plugin(id)
    \/ \E ok \in Bool : on_shutdown_returns(ok)
    \/ \E id \in CallIds : enable_plugin(id)
    \/ \E id \in CallIds : disable_plugin(id)
    \/ \E ok \in Bool : on_enable_returns(ok)
    \/ \E ok \in Bool : on_disable_returns(ok)
    \/ \E tool \in ExecutedTools : loader_execute(tool)
    \/ \E ok \in Bool : before_execute_returns(ok)
    \/ \E r \in PluginResults : plugin_execute_returns(r)
    \/ \E ok \in Bool : after_execute_returns(ok)

(***************************************************************************)
(* Conversation memory (src/core/memory.rs)                                *)
(***************************************************************************)
\* Message
Message(role, content) == [role |-> role, content |-> content]

\* a row of table messages: its position in the table is its AUTOINCREMENT id,
\* created_at is DEFAULT (datetime('now')), the wall clock in whole seconds
Row(id, m, t) ==
    [conversation_id |-> id, role |-> m.role, content |-> m.content, created_at |-> t]

\* variant of save_message: a row equal to one of the table is not inserted again
save_message_Deduplicating(mem, id, m, t) ==
    IF \E i \in 1..Len(mem) : mem[i] = Row(id, m, t) THEN mem ELSE Append(mem, Row(id, m, t))

\* MemoryStore::save_message at second t: INSERT INTO messages
save_message(mem, id, m, t) == Append(mem, Row(id, m, t))

\* MemoryStore::get_conversation: the rows WHERE conversation_id = id
\* ORDER BY created_at ASC, as Messages. The query names no second key, so
\* rows of one second come in any order: the set of the lists it can return.
get_conversation(mem, id) ==
    LET found == {i \in 1..Len(mem) : mem[i].conversation_id = id}
        n == Cardinality(found)
        orders == {o \in [1..n -> found] :
                     /\ \A a, b \in 1..n : a # b => o[a] # o[b]
                     /\ \A a, b \in 1..n :
                          a < b => mem[o[a]].created_at <= mem[o[b]].created_at}
    IN {[k \in 1..n |-> Message(mem[o[k]].role, mem[o[k]].content)] : o \in orders}

(***************************************************************************)
(* Text. A message content is a sequence of tokens, a token a tuple of     *)
(* strings: <<"text", t>> is prose, <<"~~~tool_call">> and <<"~~~">> stand *)
(* for the fences, <<"json", name, arguments>> is a JSON object, where name is *)
(* its "name" if that is a string and arguments its "arguments" value      *)
(* (Absent for a missing key, NotAString for a name of another type); and  *)
(* <<"json">> is a JSON value that is no object.                           *)
(***************************************************************************)
Open == <<"~~~tool_call">>
Fence == <<"~~~">>
Absent == "<absent>"
NotAString == "<not a string>"
Text(t) == <<"text", t>>
Json(name, arguments) == <<"json", name, arguments>>

\* str::split on the opening fence: the pieces between the opening fences
RECURSIVE split(_)
split(content) ==
    IF \A i \in 1..Len(content) : content[i] # Open THEN <<content>>
    ELSE LET i == CHOOSE k \in 1..Len(content) :
                      content[k] = Open /\ \A j \in 1..(k - 1) : content[j] # Open
         IN <<SubSeq(content, 1, i - 1)>> \o split(SubSeq(content, i + 1, Len(content)))

\* block.find of the closing fence: the index of the first closing fence, 0 for None
find(block) ==
    IF \E i \in 1..Len(block) : block[i] = Fence
    THEN CHOOSE i \in 1..Len(block) : block[i] = Fence /\ \A j \in 1..(i - 1) : block[j] # Fence
    ELSE 0

\* serde_json::from_str of block[..end].trim(), then the two get()s: the
\* ToolCall of the block, or <<>> when the block is skipped
ToolCall(name, arguments) == [name |-> name, arguments |-> arguments]

block_call(block) ==
    LET end == find(block) IN
    IF end = 0 THEN <<>>
    ELSE LET json_str == SubSeq(block, 1, end - 1) IN
         IF Len(json_str) = 1 /\ json_str[1][1] = "json" /\ Len(json_str[1]) = 3
            /\ json_str[1][2] \notin {Absent, NotAString}
            /\ json_str[1][3] # Absent
         THEN <<ToolCall(json_str[1][2], json_str[1][3])>>
         ELSE <<>>

\* variant of block_calls: each call is put in front of the earlier ones
RECURSIVE block_calls_Prepending(_)
block_calls_Prepending(blocks) ==
    IF blocks = <<>> THEN <<>>
    ELSE block_calls_Prepending(Tail(blocks)) \o block_call(Head(blocks))

RECURSIVE block_calls(_)
block_calls(blocks) ==
    IF blocks = <<>> THEN <<>>
    ELSE block_call(Head(blocks)) \o block_calls(Tail(blocks))

\* ChatEngine::extract_tool_calls: the calls in order; <<>> stands for None
\* (Some(calls) is never empty)
extract_tool_calls(content) == block_calls(split(content))

(***************************************************************************)
(* The legacy PluginRegistry the chat engine dispatches to                 *)
(* (src/plugins/mod.rs), as main() builds it                               *)
(***************************************************************************)
\* PluginRegistry.plugins after main(): the filesystem plugin, allow_write off
registry == ("filesystem" :> <<"read_file", "list_directory">>)

\* LegacyPlugin::has_tool
has_tool(reg, plugin, tool) == \E i \in 1..Len(reg[plugin]) : reg[plugin][i] = tool

\* PluginRegistry::find_plugin_for_tool: the plugins it may return
find_plugin_for_tool(reg, tool) == {p \in DOMAIN reg : has_tool(reg, p, tool)}

\* PluginRegistry::all_tools, as the set of the tool names
registry_all_tools(reg) == UNION {{reg[p][i] : i \in 1..Len(reg[p])} : p \in DOMAIN reg}


\* what a plugin's execute may return for one of its tools
PluginReturns == {<<"Ok", ToolSuccess("output")>>,
                  <<"Ok", ToolFailure("Access denied")>>,
                  <<"Err", "Invalid parameters">>}

\* PluginRegistry::execute: the Results it may return
execute(reg, tool) ==
    IF find_plugin_for_tool(reg, tool) = {}
    THEN {<<"Err", "Tool not found">>}
    ELSE PluginReturns

\* variant of ToolResultOf: the error text wrapped with ToolResult::success
ToolResultOf_ErrorAsSuccess(r) == IF r[1] = "Ok" THEN r[2] ELSE ToolSuccess(r[2])

\* chat's match on the Result of execute
ToolResultOf(r) == IF r[1] = "Ok" THEN r[2] ELSE ToolFailure(r[2])

(***************************************************************************)
(* System prompt (src/core/chat.rs)                                        *)
(***************************************************************************)
None == "None"

\* the token of a text given by its characters
Chars(s) == <<"chars", s>>

\* Option<String> of a persona name: None, or Some(name)
Nothing == <<>>
Some(x) == <<x>>

\* A persona name is the sequence of its characters
UpperCase ==
    <<"A", "B", "C", "D", "E", "F", "G", "H", "I", "J", "K", "L", "M",
      "N", "O", "P", "Q", "R", "S", "T", "U", "V", "W", "X", "Y", "Z">>
LowerCase ==
    <<"a", "b", "c", "d", "e", "f", "g", "h", "i", "j", "k", "l", "m",
      "n", "o", "p", "q", "r", "s", "t", "u", "v", "w", "x", "y", "z">>

\* str::to_lowercase: every upper-case letter by its lower-case one
to_lowercase(s) ==
    [i \in 1..Len(s) |->
        IF \E k \in 1..26 : UpperCase[k] = s[i]
        THEN LowerCase[CHOOSE k \in 1..26 : UpperCase[k] = s[i]]
        ELSE s[i]]

\* the persona names resolve_persona matches
default == <<"d", "e", "f", "a", "u", "l", "t">>
business_analyst ==
    <<"b", "u", "s", "i", "n", "e", "s", "s", "_", "a", "n", "a", "l", "y", "s", "t">>
analyst == <<"a", "n", "a", "l", "y", "s", "t">>
tech_support == <<"t", "e", "c", "h", "_", "s", "u", "p", "p", "o", "r", "t">>
support == <<"s", "u", "p", "p", "o", "r", "t">>
data_entry == <<"d", "a", "t", "a", "_", "e", "n", "t", "r", "y">>
data == <<"d", "a", "t", "a">>

\* prompts_builtin::DEFAULT, the prompt of ChatEngine::new
default_system_prompt == <<Text("DEFAULT")>>

\* variant of resolve_persona: the name is matched as given
resolve_persona_CaseSensitive(persona) ==
    LET p == persona IN
    CASE p = default -> <<Text("DEFAULT")>>
      [] p \in {business_analyst, analyst} -> <<Text("BUSINESS_ANALYST")>>
      [] p \in {tech_support, support} -> <<Text("TECH_SUPPORT")>>
      [] p \in {data_entry, data} -> <<Text("DATA_ENTRY")>>
      [] OTHER -> <<Text("DEFAULT"), Text("Note: Unknown persona '"), Chars(persona),
                    Text("', using default.")>>

\* ChatEngine::resolve_persona
resolve_persona(persona) ==
    LET p == to_lowercase(persona) IN
    CASE p = default -> <<Text("DEFAULT")>>
      [] p \in {business_analyst, analyst} -> <<Text("BUSINESS_ANALYST")>>
      [] p \in {tech_support, support} -> <<Text("TECH_SUPPORT")>>
      [] p \in {data_entry, data} -> <<Text("DATA_ENTRY")>>
      [] OTHER -> <<Text("DEFAULT"), Text("Note: Unknown persona '"), Chars(persona),
                    Text("', using default.")>>

\* variant of system_prompt: the persona before the explicit prompt
system_prompt_PersonaFirst(self_system_prompt, req) ==
    IF req.persona # Nothing THEN resolve_persona(req.persona[1])
    ELSE IF req.system_prompt # None THEN <<Text(req.system_prompt)>>
    ELSE self_system_prompt

\* chat: explicit > persona > default, for an engine whose system_prompt is
\* self_system_prompt
system_prompt(self_system_prompt, req) ==
    IF req.system_prompt # None THEN <<Text(req.system_prompt)>>
    ELSE IF req.persona # Nothing THEN resolve_persona(req.persona[1])
    ELSE self_system_prompt

\* ChatEngine::build_system_prompt
build_system_prompt(reg, base_prompt) ==
    IF registry_all_tools(reg) = {} THEN base_prompt
    ELSE base_prompt \o <<Text("## Available Tools")>>

\* Provider::from_name
from_name(name) ==
    CASE name \in {"ollama", "local"} -> "Ok"
      [] name \in {"anthropic", "claude"} -> "NotConfigured"
      [] OTHER -> "UnknownProvider"

(***************************************************************************)
(* ChatEngine::chat (src/core/chat.rs), one step per stretch of code       *)
(* between two awaits                                                      *)
(***************************************************************************)
MAX_TOOL_ITERATIONS == 10

\* bounds of the model: the tool calls the model's responses of one turn hold
\* beyond one per response, and the tool calls of one turn that fail
MaxExtraCalls == 2
MaxFailures == 2

\* ChatRequest
ChatRequest(message, id, prompt, persona, provider) ==
    [message |-> message, conversation_id |-> id, system_prompt |-> prompt,
     persona |-> persona, provider |-> provider, model |-> "llama3.2"]

\* the requests chat is called with
Requests ==
    {ChatRequest("question", "c1", None, Nothing, "ollama"),
     ChatRequest("question", None, None, Some(<<"A", "n", "a", "l", "y", "s", "t">>),
                 "unknown_provider"),
     ChatRequest("question", "c1", None, Nothing, "anthropic")}

\* Uuid::new_v4 for a request without conversation id
NewConversationId == "uuid-1"

\* the second in which the turn runs
TurnSecond == 2

\* the rows the MemoryStore holds before the turn
InitialMemory ==
    <<Row("c1", Message("user", <<Text("hi")>>), 0),
      Row("c2", Message("user", <<Text("other")>>), 0),
      Row("c1", Message("assistant", <<Text("hello")>>), 1)>>

\* the tool names the language model asks for
CalledTools == {"read_file", "nonexistent_tool"}

\* the answers of the language model: prose only; one tool_call block after
\* prose; two blocks; a malformed block and a well-formed one; a malformed
\* block only
Responses ==
    {<<Text("answer")>>,
     <<Open, Text("{oops"), Fence>>,
     <<Open, Text("{oops"), Fence, Text("and"), Open, Json("read_file", "{}"), Fence>>}
    \cup {<<Text("I will look"), Open, Json(n, "{}"), Fence>> : n \in CalledTools}
    \cup {<<Open, Json(n1, "{}"), Fence, Open, Json(n2, "{}"), Fence>> :
            n1 \in CalledTools, n2 \in CalledTools}

\* ChatResponse, ChatError
ChatOk(message, id, calls) ==
    [kind |-> "Ok", message |-> message, conversation_id |-> id, tool_calls |-> calls]
ChatErr(kind) ==
    [kind |-> kind, message |-> <<>>, conversation_id |-> None, tool_calls |-> <<>>]
NoResult == ChatErr("none")

\* ToolCallSummary
ToolCallSummary(name, success) == [name |-> name, success |-> success]

\* the two synthetic messages chat pushes for a tool call and its result
ToolCallMessage(call) ==
    Message("assistant", <<<<"Tool call", call.name, call.arguments>>>>)
ToolResultMessage(call, tool_result) ==
    Message("system", <<<<"Tool result", call.name,
                          IF tool_result.success THEN "true" ELSE "false",
                          tool_result.error>>>>)

\* the number of failed calls among the summaries, and of calls of tools that
\* no plugin offers
RECURSIVE Failures(_)
Failures(made) ==
    IF made = <<>> THEN 0
    ELSE (IF Head(made).success THEN 0 ELSE 1) + Failures(Tail(made))

RECURSIVE Unoffered(_)
Unoffered(calls) ==
    IF calls = <<>> THEN 0
    ELSE (IF find_plugin_for_tool(registry, Head(calls).name) = {} THEN 1 ELSE 0)
         + Unoffered(Tail(calls))

\* the bounds on what the language model and the plugins do in one turn
WithinBounds(n, made, calls) ==
    /\ Len(made) + Len(calls) <= n + MaxExtraCalls
    /\ Failures(made) + Unoffered(calls) <= MaxFailures

\* no turn has started
\* bound of the model: the turns in progress together on one conversation
NumTurns == 2
TurnIds == 1..NumTurns

\* the locals of chat in a turn that was not called yet; user_row and
\* assistant_row are the ids save_message returned (0: not saved)
IdleTurn ==
    [pc |-> "idle", history |-> <<>>,
     response |-> Message("assistant", <<>>), result |-> "none",
     user_row |-> 0, assistant_row |-> 0]

NoTurn ==
    /\ turns = [t \in TurnIds |-> IdleTurn]
    /\ pc = "idle"
    /\ request = ChatRequest("", None, None, Nothing, "")
    /\ conversation_id = None
    /\ messages = <<>>
    /\ iterations = 0
    /\ tool_calls_made = <<>>
    /\ pending = <<>>
    /\ response = Message("assistant", <<>>)
    /\ dispatch_result = <<"none", "none">>
    /\ result = NoResult
    /\ llm_calls = 0
    /\ dispatched = <<>>

ChatInit ==
    /\ memory = InitialMemory
    /\ now = TurnSecond
    /\ NoTurn

\* chat(request) up to its first await, get_conversation
chat(req) ==
    /\ pc = "idle"
    /\ request' = req
    /\ conversation_id' = IF req.conversation_id = None THEN NewConversationId
                          ELSE req.conversation_id
    /\ pc' = "get_conversation"
    /\ UNCHANGED <<memory, messages, iterations, tool_calls_made, pending, response,
                   result, llm_calls, dispatched, dispatch_result, now, regVars, fnVars, lockVars,
                   turnVars>>

\* get_conversation returns: the message list is built, save_message is awaited
get_conversation_returns(ok) ==
    /\ pc = "get_conversation"
    /\ IF ok
       THEN /\ \E history \in get_conversation(memory, conversation_id) :
                 messages' =
                   <<Message("system", build_system_prompt(registry, system_prompt(default_system_prompt, request)))>>
                   \o history
                   \o <<Message("user", <<Text(request.message)>>)>>
            /\ pc' = "save_user"
            /\ result' = result
       ELSE /\ pc' = "done"
            /\ result' = ChatErr("Memory")
            /\ messages' = messages
    /\ UNCHANGED <<memory, request, conversation_id, iterations, tool_calls_made, pending,
                   response, llm_calls, dispatched, dispatch_result, now, regVars, fnVars, lockVars,
                   turnVars>>

\* variants of ExceedsBound: the comparison off by one, either way
ExceedsBound_OneLess(n) == n >= MAX_TOOL_ITERATIONS
ExceedsBound_OneMore(n) == n > MAX_TOOL_ITERATIONS + 1

\* iterations > MAX_TOOL_ITERATIONS
ExceedsBound(n) == n > MAX_TOOL_ITERATIONS

\* the top of the loop after n iterations: count the next one, fail at the bound,
\* else call the language model
LoopTop(n) ==
    /\ iterations' = n + 1
    /\ IF ExceedsBound(n + 1)
       THEN /\ pc' = "done"
            /\ result' = ChatErr("MaxIterationsExceeded")
            /\ llm_calls' = llm_calls
       ELSE /\ pc' = "llm"
            /\ result' = result
            /\ llm_calls' = llm_calls + 1

\* save_message of the user message returns: the provider is created and the
\* loop entered
save_user_returns(ok) ==
    /\ pc = "save_user"
    /\ IF ~ok
       THEN /\ pc' = "done"
            /\ result' = ChatErr("Memory")
            /\ UNCHANGED <<memory, iterations, llm_calls>>
       ELSE /\ memory' = save_message(memory, conversation_id, messages[Len(messages)], now)
            /\ IF from_name(request.provider) # "Ok"
               THEN /\ pc' = "done"
                    /\ result' = ChatErr("Provider")
                    /\ UNCHANGED <<iterations, llm_calls>>
               ELSE LoopTop(iterations)
    /\ UNCHANGED <<request, conversation_id, messages, tool_calls_made, pending, response,
                   dispatched, dispatch_result, now, regVars, fnVars, lockVars, turnVars>>

\* the calls chat takes from a response, in the order it visits them
CallsOf(content) == extract_tool_calls(content)

\* provider.chat returns an error
llm_fails_RollingBack ==
    /\ pc = "llm"
    /\ pc' = "done"
    /\ result' = ChatErr("Provider")
    /\ memory' = SubSeq(memory, 1, Len(memory) - 1)
    /\ UNCHANGED <<request, conversation_id, messages, iterations, tool_calls_made,
                   pending, response, llm_calls, dispatched, dispatch_result, now, regVars, fnVars, lockVars,
                   turnVars>>

llm_fails ==
    /\ pc = "llm"
    /\ pc' = "done"
    /\ result' = ChatErr("Provider")
    /\ UNCHANGED <<memory, request, conversation_id, messages, iterations, tool_calls_made,
                   pending, response, llm_calls, dispatched, dispatch_result, now, regVars, fnVars, lockVars,
                   turnVars>>

\* provider.chat returns a response: its first tool call is handed to
\* plugins.execute, or, without tool calls, the response is saved
llm_returns(content) ==
    /\ pc = "llm"
    /\ WithinBounds(iterations, tool_calls_made, CallsOf(content))
    /\ response' = Message("assistant", content)
    /\ IF CallsOf(content) # <<>>
       THEN /\ pending' = CallsOf(content)
            /\ dispatched' = Append(dispatched, Head(CallsOf(content)))
            /\ pc' = "execute"
       ELSE /\ pc' = "save_assistant"
            /\ UNCHANGED <<pending, dispatched>>
    /\ UNCHANGED <<memory, request, conversation_id, messages, iterations, tool_calls_made,
                   dispatch_result, result, llm_calls, now, regVars, fnVars, lockVars, turnVars>>

\* variant of NextCalls: the for loop ends after the first tool call
NextCalls_None(calls) == <<>>

\* the tool calls the for loop visits after the first
NextCalls(calls) == Tail(calls)

\* variant of execute_returns: the last response is saved when the loop fails
\* at the bound
execute_returns_SavingLast(r) ==
    /\ pc = "execute"
    /\ r \in execute(registry, Head(pending).name)
    /\ LET tool_call == Head(pending)
           tool_result == ToolResultOf(r)
           rest == NextCalls(pending)
       IN
       /\ tool_calls_made' =
              Append(tool_calls_made, ToolCallSummary(tool_call.name, tool_result.success))
       /\ WithinBounds(iterations, tool_calls_made', rest)
       /\ messages' = messages \o <<ToolCallMessage(tool_call),
                                    ToolResultMessage(tool_call, tool_result)>>
       /\ pending' = rest
       /\ dispatch_result' = r
       /\ IF rest # <<>>
          THEN /\ dispatched' = Append(dispatched, Head(rest))
               /\ memory' = memory
               /\ UNCHANGED <<pc, iterations, result, llm_calls>>
          ELSE /\ dispatched' = dispatched
               /\ memory' = IF ExceedsBound(iterations + 1)
                            THEN save_message(memory, conversation_id, response, now)
                            ELSE memory
               /\ LoopTop(iterations)
    /\ UNCHANGED <<request, conversation_id, response, now, regVars, fnVars, lockVars, turnVars>>

\* variant of execute_returns: the two synthetic messages are saved as well
execute_returns_Saving(r) ==
    /\ pc = "execute"
    /\ r \in execute(registry, Head(pending).name)
    /\ LET tool_call == Head(pending)
           tool_result == ToolResultOf(r)
           rest == NextCalls(pending)
       IN
       /\ tool_calls_made' =
              Append(tool_calls_made, ToolCallSummary(tool_call.name, tool_result.success))
       /\ WithinBounds(iterations, tool_calls_made', rest)
       /\ messages' = messages \o <<ToolCallMessage(tool_call),
                                    ToolResultMessage(tool_call, tool_result)>>
       /\ memory' = save_message(save_message(memory, conversation_id,
                                               ToolCallMessage(tool_call), now),
                                  conversation_id, ToolResultMessage(tool_call, tool_result),
                                  now)
       /\ pending' = rest
       /\ dispatch_result' = r
       /\ IF rest # <<>>
          THEN /\ dispatched' = Append(dispatched, Head(rest))
               /\ UNCHANGED <<pc, iterations, result, llm_calls>>
          ELSE /\ dispatched' = dispatched
               /\ LoopTop(iterations)
    /\ UNCHANGED <<request, conversation_id, response, now, regVars, fnVars, lockVars, turnVars>>

\* plugins.execute returns r for the first pending call: summary and synthetic
\* messages are pushed, then the next call is dispatched or the loop continues
execute_returns(r) ==
    /\ pc = "execute"
    /\ r \in execute(registry, Head(pending).name)
    /\ LET tool_call == Head(pending)
           tool_result == ToolResultOf(r)
           rest == NextCalls(pending)
       IN
       /\ tool_calls_made' =
              Append(tool_calls_made, ToolCallSummary(tool_call.name, tool_result.success))
       /\ WithinBounds(iterations, tool_calls_made', rest)
       /\ messages' = messages \o <<ToolCallMessage(tool_call),
                                    ToolResultMessage(tool_call, tool_result)>>
       /\ pending' = rest
       /\ dispatch_result' = r
       /\ IF rest # <<>>
          THEN /\ dispatched' = Append(dispatched, Head(rest))
               /\ UNCHANGED <<pc, iterations, result, llm_calls>>
          ELSE /\ dispatched' = dispatched
               /\ LoopTop(iterations)
    /\ UNCHANGED <<memory, request, conversation_id, response, now, regVars, fnVars, lockVars, turnVars>>

\* save_message of the final response returns
save_assistant_returns(ok) ==
    /\ pc = "save_assistant"
    /\ pc' = "done"
    /\ IF ok
       THEN /\ memory' = save_message(memory, conversation_id, response, now)
            /\ result' = ChatOk(response.content, conversation_id, tool_calls_made)
       ELSE /\ memory' = memory
            /\ result' = ChatErr("Memory")
    /\ UNCHANGED <<request, conversation_id, messages, iterations, tool_calls_made, pending,
                   response, llm_calls, dispatched, dispatch_result, now, regVars, fnVars, lockVars,
                   turnVars>>

ChatNext ==
    \/ \E req \in Requests : chat(req)
    \/ \E ok \in Bool : get_conversation_returns(ok)
    \/ \E ok \in Bool : save_user_returns(ok)
    \/ llm_fails
    \/ \E content \in Responses : llm_returns(content)
    \/ \E r \in PluginReturns \cup {<<"Err", "Tool not found">>} : execute_returns(r)
    \/ \E ok \in Bool : save_assistant_returns(ok)

(***************************************************************************)
(* The shared loader: Arc<RwLock<PluginLoader>>                            *)
(***************************************************************************)
\* the number of requests that share the loader
NumRequests == 3

RequestIds == 1..NumRequests

\* the methods that take &mut self and those that take &self
Structural == {"register", "register_with_config", "init_all", "init_plugin",
               "shutdown_all", "shutdown_plugin", "enable_plugin", "disable_plugin"}
Shared == {"all_tools", "execute"}

\* shared_loader(): nobody holds the lock
LockInit ==
    /\ guard = [t \in RequestIds |-> "none"]
    /\ running = [t \in RequestIds |-> "none"]

\* request t calls loader.write() or loader.read() and awaits the guard
guard_awaited(t, kind) ==
    /\ guard[t] = "none"
    /\ guard' = [guard EXCEPT ![t] = kind]
    /\ UNCHANGED <<running, regVars, chatVars, fnVars, turnVars>>

\* the guards alive
Held == {"read", "write"}

\* variant of write_acquired: the readers are not waited for
write_acquired_IgnoringReaders(t) ==
    /\ guard[t] = "awaits write"
    /\ \A u \in RequestIds : guard[u] # "write"
    /\ guard' = [guard EXCEPT ![t] = "write"]
    /\ UNCHANGED <<running, regVars, chatVars, fnVars, turnVars>>

\* loader.write().await returns its guard to request t: no other guard is alive
write_acquired(t) ==
    /\ guard[t] = "awaits write"
    /\ \A u \in RequestIds : guard[u] \notin Held
    /\ guard' = [guard EXCEPT ![t] = "write"]
    /\ UNCHANGED <<running, regVars, chatVars, fnVars, turnVars>>

\* loader.read().await returns its guard to request t: no write guard is alive
read_acquired(t) ==
    /\ guard[t] = "awaits read"
    /\ \A u \in RequestIds : guard[u] # "write"
    /\ guard' = [guard EXCEPT ![t] = "read"]
    /\ UNCHANGED <<running, regVars, chatVars, fnVars, turnVars>>

\* request t drops its guard; a method borrows the guard while it runs
guard_dropped(t) ==
    /\ guard[t] \in Held
    /\ running[t] = "none"
    /\ guard' = [guard EXCEPT ![t] = "none"]
    /\ UNCHANGED <<running, regVars, chatVars, fnVars, turnVars>>

\* request t calls a &mut self method: through a write guard only
structural_called(t, method) ==
    /\ guard[t] = "write"
    /\ running[t] = "none"
    /\ running' = [running EXCEPT ![t] = method]
    /\ UNCHANGED <<guard, regVars, chatVars, fnVars, turnVars>>

\* request t calls a &self method: through either guard
shared_called(t, method) ==
    /\ guard[t] \in Held
    /\ running[t] = "none"
    /\ running' = [running EXCEPT ![t] = method]
    /\ UNCHANGED <<guard, regVars, chatVars, fnVars, turnVars>>

\* the method request t is executing returns
method_returns(t) ==
    /\ running[t] # "none"
    /\ running' = [running EXCEPT ![t] = "none"]
    /\ UNCHANGED <<guard, regVars, chatVars, fnVars, turnVars>>

SharedNext ==
    \/ \E t \in RequestIds, kind \in {"awaits read", "awaits write"} : guard_awaited(t, kind)
    \/ \E t \in RequestIds : write_acquired(t)
    \/ \E t \in RequestIds : read_acquired(t)
    \/ \E t \in RequestIds : guard_dropped(t)
    \/ \E t \in RequestIds, method \in Structural : structural_called(t, method)
    \/ \E t \in RequestIds, method \in Shared : shared_called(t, method)
    \/ \E t \in RequestIds : method_returns(t)

(***************************************************************************)
(* Calls of Version::is_compatible_with                                    *)
(***************************************************************************)
\* the largest major, minor and patch number of the versions compared
MaxVersionPart == 3

Versions ==
    {Version(a, b, c) : a \in 0..MaxVersionPart, b \in 0..MaxVersionPart, c \in 0..MaxVersionPart}

NoArgs == <<>>
\* nothing returned yet; a returned value v is <<v>>
NoValue == <<>>

\* no call of a function is made
FnIdle == args = NoArgs /\ value = NoValue

\* self.is_compatible_with(required) is called and returns
call_is_compatible_with ==
    /\ value = NoValue
    /\ value' = <<is_compatible_with(args[1], args[2])>>
    /\ UNCHANGED <<args, regVars, chatVars, lockVars, turnVars>>

VersionInit ==
    /\ RegistryInit
    /\ ChatInit
    /\ args \in Versions \X Versions
    /\ value = NoValue
    /\ LockInit

VersionNext == call_is_compatible_with

(***************************************************************************)
(* Registrations of arbitrary manifests                                    *)
(***************************************************************************)
\* the longest id of the manifests registered
MaxIdLen == 2

\* characters of ids: letters and digits of ASCII, the three marks validate
\* names, a blank, an exclamation mark, and a letter outside ASCII
IdChars == {"a", "A", "7", ".", "-", "_", " ", "!", "e_acute"}

Ids == UNION {[1..n -> IdChars] : n \in 0..MaxIdLen}

Manifests ==
    {Manifest(id, name, description, DefaultVersion, NoDeps, FALSE) :
        id \in Ids, name \in {"", "N"}, description \in {"", "some plugin"}}

\* a plugin with manifest m
PluginOf(m) == [manifest |-> m, tools |-> <<"a_tool">>]

\* register(plugin) for the plugin with the manifest args[1], on a new registry
register_manifest ==
    /\ ret = NoRet
    /\ register(PluginOf(args[1]))

ManifestInit ==
    /\ RegistryInit
    /\ ChatInit
    /\ args \in {<<m>> : m \in Manifests}
    /\ value = NoValue
    /\ LockInit

ManifestNext == register_manifest

(***************************************************************************)
(* Calls of ChatEngine::extract_tool_calls                                 *)
(***************************************************************************)
\* the longest response text, in tokens
MaxTokens == 5

\* the tokens of the response texts: prose, the two fences, two JSON objects
\* that are tool calls, one whose name is a number, one whose arguments are
\* a number
ResponseTokens ==
    {Text("t"), Open, Fence, Json("read_file", "{}"), Json("list_directory", "{}"),
     Json(NotAString, "{}"), Json("read_file", "7")}

Contents == UNION {[1..n -> ResponseTokens] : n \in 0..MaxTokens}

\* extract_tool_calls(content) is called and returns
call_extract_tool_calls ==
    /\ value = NoValue
    /\ value' = <<extract_tool_calls(args[1])>>
    /\ UNCHANGED <<args, regVars, chatVars, lockVars, turnVars>>

ExtractInit ==
    /\ RegistryInit
    /\ ChatInit
    /\ LockInit
    /\ args \in {<<c>> : c \in Contents}
    /\ value = NoValue

ExtractNext == call_extract_tool_calls

(***************************************************************************)
(* The system prompt of a turn, for every request of a bounded set         *)
(***************************************************************************)
\* the spellings of a persona name: as matched, upper-cased at the positions U
Spelled(name, U) ==
    [i \in 1..Len(name) |->
        IF i \in U /\ \E k \in 1..26 : LowerCase[k] = name[i]
        THEN UpperCase[CHOOSE k \in 1..26 : LowerCase[k] = name[i]]
        ELSE name[i]]

\* every name in lower case, in upper case and with one upper-case letter
Spellings(name) ==
    {Spelled(name, U) : U \in {{}, 1..Len(name)} \cup {{i} : i \in 1..Len(name)}}

BuiltinNames == {default, business_analyst, analyst, tech_support, support, data_entry, data}

\* the persona names requested: the spellings of the built-in ones, and names
\* that are none of them
UnknownNames ==
    {<<"p", "i", "r", "a", "t", "e">>, <<"P", "i", "r", "a", "t", "e">>, <<"d", "a", "t">>,
     <<"D", "a", "t", "a", " ">>, <<"a", "n", "a", "l", "y", "s", "t", "s">>, <<>>}
PersonaNames == UNION {Spellings(n) : n \in BuiltinNames} \cup UnknownNames

\* the engines (new, and with_system_prompt) and the requests
EnginePrompts == {default_system_prompt, <<Text("engine prompt")>>}
PromptRequests ==
    {ChatRequest("question", None, prompt, persona, "ollama") :
        prompt \in {None, "explicit prompt"},
        persona \in {Nothing} \cup {Some(n) : n \in PersonaNames}}

\* the system prompt of the turn is resolved
call_system_prompt ==
    /\ value = NoValue
    /\ value' = <<system_prompt(args[1], args[2])>>
    /\ UNCHANGED <<args, regVars, chatVars, lockVars, turnVars>>

PromptInit ==
    /\ RegistryInit
    /\ ChatInit
    /\ LockInit
    /\ args \in {<<e, r>> : e \in EnginePrompts, r \in PromptRequests}
    /\ value = NoValue

PromptNext == call_system_prompt

(***************************************************************************)
(* FilesystemPlugin (src/plugins/filesystem/mod.rs) over a file tree       *)
(***************************************************************************)
\* A path is the sequence of its components below "/". A file tree maps the
\* path of each of its entries to the entry: a directory, a file or a
\* symbolic link with the path it points to.
Dir == [kind |-> "dir", size |-> 1]
File(content, size) == [kind |-> "file", content |-> content, size |-> size]
Link(target) == [kind |-> "link", target |-> target]

\* the symbolic links one path resolution follows before it fails (ELOOP)
MaxSymlinks == 2

\* path resolution from the directory cur along the components rest: the
\* path of the entry reached, every symbolic link followed, or Nothing when a
\* component is missing or is below a file
RECURSIVE resolve(_, _, _, _)
resolve(tree, cur, rest, fuel) ==
    IF rest = <<>> THEN Some(cur)
    ELSE IF tree[cur].kind # "dir" THEN Nothing
    ELSE IF Head(rest) = ".."
    THEN resolve(tree, SubSeq(cur, 1, Len(cur) - 1), Tail(rest), fuel)
    ELSE LET next == Append(cur, Head(rest)) IN
         IF next \notin DOMAIN tree THEN Nothing
         ELSE IF tree[next].kind = "link"
         THEN IF fuel = 0 THEN Nothing
              ELSE resolve(tree, <<>>, tree[next].target \o Tail(rest), fuel - 1)
         ELSE resolve(tree, next, Tail(rest), fuel)

\* Path::canonicalize
canonicalize(tree, path) == resolve(tree, <<>>, path, MaxSymlinks)

\* Path::parent: the path without its last component, None for "/"
parent(path) == IF path = <<>> THEN Nothing ELSE Some(SubSeq(path, 1, Len(path) - 1))

\* Path::starts_with: base is a prefix of path, component by component
starts_with(path, base) ==
    /\ Len(base) <= Len(path)
    /\ SubSeq(path, 1, Len(base)) = base

\* Path::exists
exists(tree, path) == canonicalize(tree, path) # Nothing

\* File::create(path) of fs::write: the path of the entry written, which is
\* made if it is missing and reached through the symbolic link if it is one,
\* or Nothing when the open fails
RECURSIVE create(_, _, _)
create(tree, path, fuel) ==
    IF path = <<>> \/ path[Len(path)] = ".." THEN Nothing
    ELSE LET dir == canonicalize(tree, SubSeq(path, 1, Len(path) - 1)) IN
         IF dir = Nothing THEN Nothing
         ELSE IF tree[dir[1]].kind # "dir" THEN Nothing
         ELSE LET entry == Append(dir[1], path[Len(path)]) IN
              IF entry \notin DOMAIN tree THEN Some(entry)
              ELSE IF tree[entry].kind = "file" THEN Some(entry)
              ELSE IF tree[entry].kind = "dir" THEN Nothing
              ELSE IF fuel = 0 THEN Nothing
              ELSE create(tree, tree[entry].target, fuel - 1)

\* FilesystemConfig
FilesystemConfig(allowed_paths, allow_write, max_file_size) ==
    [allowed_paths |-> allowed_paths, allow_write |-> allow_write,
     max_file_size |-> max_file_size]

\* what a call returns, the file tree after it, and the file contents read,
\* directories listed and files written by it
Outcome(r, tree, io) == [ret |-> r, tree |-> tree, io |-> io]

AccessDenied == <<"Access denied", ": path is not in allowed paths">>

\* FilesystemPlugin::is_path_allowed
is_path_allowed(self, tree, path) ==
    IF self.allowed_paths = <<>> THEN FALSE
    ELSE LET canonical ==
                 IF canonicalize(tree, path) # Nothing THEN canonicalize(tree, path)
                 ELSE IF parent(path) # Nothing THEN canonicalize(tree, parent(path)[1])
                 ELSE Nothing
         IN /\ canonical # Nothing
            /\ \E i \in 1..Len(self.allowed_paths) :
                  LET allowed_canonical == canonicalize(tree, self.allowed_paths[i]) IN
                  /\ allowed_canonical # Nothing
                  /\ starts_with(canonical[1], allowed_canonical[1])

\* FilesystemPlugin::read_file
read_file(self, tree, path) ==
    IF ~is_path_allowed(self, tree, path)
    THEN Outcome(<<"Ok", ToolFailure(AccessDenied)>>, tree, <<>>)
    ELSE IF ~exists(tree, path)
    THEN Outcome(<<"Ok", ToolFailure(<<"File not found">>)>>, tree, <<>>)
    ELSE LET file == tree[canonicalize(tree, path)[1]] IN
         IF file.size > self.max_file_size
         THEN Outcome(<<"Ok", ToolFailure(<<"File too large">>)>>, tree, <<>>)
         ELSE IF file.kind # "file"
         THEN Outcome(<<"Err", "IoError">>, tree, <<"read_to_string">>)
         ELSE Outcome(<<"Ok", ToolSuccess(file.content)>>, tree, <<"read_to_string">>)

\* variant of write_file: allow_write is not consulted
write_file_Unguarded(self, tree, path, content) ==
    IF ~is_path_allowed(self, tree, path)
    THEN Outcome(<<"Ok", ToolFailure(AccessDenied)>>, tree, <<>>)
    ELSE LET written == create(tree, path, MaxSymlinks) IN
         IF written = Nothing
         THEN Outcome(<<"Err", "IoError">>, tree, <<"write">>)
         ELSE Outcome(<<"Ok", ToolSuccess("bytes_written")>>,
                      (written[1] :> File(content, 1)) @@ tree, <<"write">>)

\* FilesystemPlugin::write_file. A path passes is_path_allowed only if its
\* parent exists, so create_dir_all is not called.
write_file(self, tree, path, content) ==
    IF ~self.allow_write
    THEN Outcome(<<"Ok", ToolFailure(<<"Write operations are disabled for this plugin">>)>>,
                 tree, <<>>)
    ELSE IF ~is_path_allowed(self, tree, path)
    THEN Outcome(<<"Ok", ToolFailure(AccessDenied)>>, tree, <<>>)
    ELSE LET written == create(tree, path, MaxSymlinks) IN
         IF written = Nothing
         THEN Outcome(<<"Err", "IoError">>, tree, <<"write">>)
         ELSE Outcome(<<"Ok", ToolSuccess("bytes_written")>>,
                      (written[1] :> File(content, 1)) @@ tree, <<"write">>)

\* FilesystemPlugin::list_directory
list_directory(self, tree, path) ==
    IF ~is_path_allowed(self, tree, path)
    THEN Outcome(<<"Ok", ToolFailure(AccessDenied)>>, tree, <<>>)
    ELSE IF ~exists(tree, path)
    THEN Outcome(<<"Ok", ToolFailure(<<"Directory not found">>)>>, tree, <<>>)
    ELSE LET dir == canonicalize(tree, path)[1] IN
         IF tree[dir].kind # "dir"
         THEN Outcome(<<"Err", "IoError">>, tree, <<"read_dir">>)
         ELSE Outcome(<<"Ok", ToolSuccess({e \in DOMAIN tree :
                                              e # <<>> /\ parent(e) = Some(dir)})>>,
                      tree, <<"read_dir">>)

\* FilesystemPlugin::build_tools: the names of the tools
build_tools(self) ==
    <<"read_file", "list_directory">>
    \o (IF self.allow_write THEN <<"write_file">> ELSE <<>>)

\* Plugin::execute of FilesystemPlugin; params holds Some(path) and
\* Some(content), or Nothing for a key that is missing or not a string
filesystem_execute(self, tree, tool, params) ==
    CASE tool = "read_file" ->
           IF params.path = Nothing
           THEN Outcome(<<"Err", "InvalidParameters">>, tree, <<>>)
           ELSE read_file(self, tree, params.path[1])
      [] tool = "write_file" ->
           IF params.path = Nothing \/ params.content = Nothing
           THEN Outcome(<<"Err", "InvalidParameters">>, tree, <<>>)
           ELSE write_file(self, tree, params.path[1], params.content[1])
      [] tool = "list_directory" ->
           IF params.path = Nothing
           THEN Outcome(<<"Err", "InvalidParameters">>, tree, <<>>)
           ELSE list_directory(self, tree, params.path[1])
      [] OTHER -> Outcome(<<"Err", "ToolNotFound">>, tree, <<>>)

(***************************************************************************)
(* ApiPlugin (src/plugins/api/mod.rs). A name is the sequence of its       *)
(* characters.                                                             *)
(***************************************************************************)
\* ServiceDef: its id and the names of its endpoints
ServiceDef(id, endpoints) == [id |-> id, endpoints |-> endpoints]

\* format!("{}_{}", service.id, endpoint.name)
full_name(service, endpoint) == service.id \o <<"_">> \o endpoint

\* ApiPlugin::tools: the names of the tools, service by service
RECURSIVE api_tools(_)
api_tools(self) ==
    IF self = <<>> THEN <<>>
    ELSE [j \in 1..Len(Head(self).endpoints) |-> full_name(Head(self), Head(self).endpoints[j])]
         \o api_tools(Tail(self))

\* ApiPlugin::find_endpoint: whether an endpoint is found
find_endpoint(self, tool_name) ==
    \E i \in 1..Len(self) : \E j \in 1..Len(self[i].endpoints) :
        full_name(self[i], self[i].endpoints[j]) = tool_name

\* Plugin::execute of ApiPlugin: what it may return, by what the request does
api_execute(self, tool) ==
    IF ~find_endpoint(self, tool)
    THEN {<<"Err", "ToolNotFound">>}
    ELSE {<<"Ok", ToolSuccess("data")>>, <<"Ok", ToolFailure(<<"API returned error">>)>>,
          <<"Err", "ExecutionFailed">>}

(***************************************************************************)
(* One call of execute on a capability, for every call of a bounded set    *)
(***************************************************************************)
\* the file tree: a root that is allowed with two files, a link to a file
\* that does not exist and a link to a directory, both leading out of it
Tree ==
    (<<>> :> Dir)
    @@ (<<"allowed">> :> Dir)
    @@ (<<"allowed", "notes.txt">> :> File("notes", 1))
    @@ (<<"allowed", "big.txt">> :> File("big", 3))
    @@ (<<"allowed", "link">> :> Link(<<"outside", "new.txt">>))
    @@ (<<"allowed", "out">> :> Link(<<"outside">>))
    @@ (<<"outside">> :> Dir)
    @@ (<<"outside", "secret.txt">> :> File("secret", 1))

RequestedPaths ==
    {<<>>, <<"allowed">>, <<"allowed", "notes.txt">>, <<"allowed", "big.txt">>,
     <<"allowed", "new.txt">>, <<"allowed", "link">>, <<"allowed", "out">>,
     <<"allowed", "out", "secret.txt">>, <<"allowed", "..", "outside", "secret.txt">>,
     <<"allowed", "ghost", "new.txt">>, <<"outside">>, <<"outside", "secret.txt">>,
     <<"outside", "new.txt">>}

MaxFileSize == 2

FilesystemConfigs ==
    {FilesystemConfig(roots, allow_write, MaxFileSize) :
        roots \in {<<>>, <<<<"allowed">>>>, <<<<"missing">>, <<"allowed">>>>},
        allow_write \in Bool}

FilesystemCalls ==
    {<<"filesystem", self, tool, [path |-> path, content |-> content]>> :
        self \in FilesystemConfigs,
        tool \in {"read_file", "write_file", "list_directory", "delete_file"},
        path \in {Nothing} \cup {Some(p) : p \in RequestedPaths},
        content \in {Nothing, Some("data")}}

ApiConfigs ==
    {<<>>,
     <<ServiceDef(<<"t">>, <<<<"g">>, <<"p">>>>)>>,
     <<ServiceDef(<<"a", "_", "b">>, <<<<"c">>>>), ServiceDef(<<"a">>, <<<<"b", "_", "c">>>>)>>}

ApiCalls ==
    {<<"api", self, tool, <<>>>> :
        self \in ApiConfigs,
        tool \in {<<"t", "_", "g">>, <<"t", "_", "p">>, <<"t", "_", "x">>, <<"g">>,
                  <<"a", "_", "b", "_", "c">>, <<"T", "_", "g">>, <<>>}}

\* execute(tool, params) of a FilesystemPlugin is called and returns
call_filesystem_execute ==
    /\ value = NoValue
    /\ args[1] = "filesystem"
    /\ value' = <<filesystem_execute(args[2], Tree, args[3], args[4])>>
    /\ UNCHANGED <<args, regVars, chatVars, lockVars, turnVars>>

\* execute(tool, params) of an ApiPlugin is called and returns
call_api_execute ==
    /\ value = NoValue
    /\ args[1] = "api"
    /\ \E r \in api_execute(args[2], args[3]) : value' = <<Outcome(r, Tree, <<>>)>>
    /\ UNCHANGED <<args, regVars, chatVars, lockVars, turnVars>>

CapabilityInit ==
    /\ RegistryInit
    /\ ChatInit
    /\ LockInit
    /\ args \in FilesystemCalls \cup ApiCalls
    /\ value = NoValue

CapabilityNext ==
    \/ call_filesystem_execute
    \/ call_api_execute

(***************************************************************************)
(* A MemoryStore on its own: messages are saved while the wall clock runs, *)
(* and conversations are read back                                         *)
(***************************************************************************)
MaxRows == 3
MaxSecond == 1

\* the conversation ids saved under, and one more that is only read
SavedIds == {"c1", "c2"}
ReadIds == SavedIds \cup {"c3"}
SavedMessages == {Message("user", <<Text("m1")>>), Message("assistant", <<Text("m2")>>)}

\* save_message(conversation_id, message) is called and returns
call_save_message(id, m) ==
    /\ Len(memory) < MaxRows
    /\ memory' = save_message(memory, id, m, now)
    /\ args' = NoArgs
    /\ value' = NoValue
    /\ UNCHANGED <<now, pc, request, conversation_id, messages, iterations, tool_calls_made,
                   pending, response, dispatch_result, result, llm_calls, dispatched,
                   regVars, lockVars, turnVars>>

\* get_conversation(conversation_id) is called and returns one of the lists
\* its query can yield
call_get_conversation(id) ==
    /\ \E history \in get_conversation(memory, id) :
          /\ args' = <<id>>
          /\ value' = <<history>>
    /\ UNCHANGED <<regVars, chatVars, lockVars, turnVars>>

\* the wall clock reaches the next second
clock_ticks ==
    /\ now < MaxSecond
    /\ now' = now + 1
    /\ UNCHANGED <<memory, pc, request, conversation_id, messages, iterations,
                   tool_calls_made, pending, response, dispatch_result, result, llm_calls,
                   dispatched, regVars, fnVars, lockVars, turnVars>>

\* the wall clock is set back (it is not monotonic)
clock_set_back ==
    /\ now > 0
    /\ now' = now - 1
    /\ UNCHANGED <<memory, pc, request, conversation_id, messages, iterations,
                   tool_calls_made, pending, response, dispatch_result, result, llm_calls,
                   dispatched, regVars, fnVars, lockVars, turnVars>>

MemoryInit ==
    /\ RegistryInit
    /\ LockInit
    /\ FnIdle
    /\ NoTurn
    /\ memory = <<>>
    /\ now = 0

MemoryNext ==
    \/ \E id \in SavedIds, m \in SavedMessages : call_save_message(id, m)
    \/ \E id \in ReadIds : call_get_conversation(id)
    \/ clock_ticks
    \/ clock_set_back

(***************************************************************************)
(* Turns in progress together on one conversation: every await of chat     *)
(* (src/core/chat.rs) is a point where a sibling turn runs. The engine     *)
(* holds no lock per conversation; the turns share the MemoryStore only.   *)
(***************************************************************************)
\* the request of every turn: the same conversation
TurnRequest == ChatRequest("question", "c1", None, Nothing, "ollama")

\* what the concurrent turns leave alone
turnFrame ==
    <<now, pc, request, conversation_id, messages, iterations, tool_calls_made, pending,
      response, dispatch_result, result, llm_calls, dispatched, regVars, fnVars, lockVars>>

\* turn t: chat(request) up to its first await, get_conversation
turn_chat(t) ==
    /\ turns[t].pc = "idle"
    /\ turns' = [turns EXCEPT ![t].pc = "get_conversation"]
    /\ UNCHANGED <<memory, turnFrame>>

\* turn t: get_conversation returns the rows of the conversation as they are now
turn_get_conversation_returns(t, ok) ==
    /\ turns[t].pc = "get_conversation"
    /\ IF ok
       THEN \E history \in get_conversation(memory, TurnRequest.conversation_id) :
               turns' = [turns EXCEPT ![t].pc = "save_user", ![t].history = history]
       ELSE turns' = [turns EXCEPT ![t].pc = "done", ![t].result = "Memory"]
    /\ UNCHANGED <<memory, turnFrame>>

\* turn t: save_message of the user message returns its row id; the provider is
\* created and the loop entered
turn_save_user_returns(t, ok) ==
    /\ turns[t].pc = "save_user"
    /\ IF ~ok
       THEN /\ turns' = [turns EXCEPT ![t].pc = "done", ![t].result = "Memory"]
            /\ memory' = memory
       ELSE /\ memory' = save_message(memory, TurnRequest.conversation_id,
                                      Message("user", <<Text(TurnRequest.message)>>), now)
            /\ turns' = [turns EXCEPT ![t].user_row = Len(memory'),
                                      ![t].pc = IF from_name(TurnRequest.provider) = "Ok"
                                                THEN "llm" ELSE "done",
                                      ![t].result = IF from_name(TurnRequest.provider) = "Ok"
                                                    THEN "none" ELSE "Provider"]
    /\ UNCHANGED turnFrame

\* turn t: provider.chat fails
turn_llm_fails(t) ==
    /\ turns[t].pc = "llm"
    /\ turns' = [turns EXCEPT ![t].pc = "done", ![t].result = "Provider"]
    /\ UNCHANGED <<memory, turnFrame>>

\* turn t: provider.chat returns. With tool calls they are dispatched, which
\* reads and writes locals of the turn and the registry but no row of the
\* MemoryStore, and the loop is entered again: it calls the language model
\* again or, when that was the iteration at the bound, fails (the count of the
\* iterations is the one of the single turn above). Without tool calls the
\* response is saved.
turn_llm_returns(t, content, at_bound) ==
    /\ turns[t].pc = "llm"
    /\ IF CallsOf(content) # <<>>
       THEN IF at_bound
            THEN turns' = [turns EXCEPT ![t].pc = "done",
                                        ![t].result = "MaxIterationsExceeded"]
            ELSE turns' = turns
       ELSE turns' = [turns EXCEPT ![t].pc = "save_assistant",
                                   ![t].response = Message("assistant", content)]
    /\ UNCHANGED <<memory, turnFrame>>

\* turn t: save_message of the final response returns its row id; chat returns
turn_save_assistant_returns(t, ok) ==
    /\ turns[t].pc = "save_assistant"
    /\ IF ok
       THEN /\ memory' = save_message(memory, TurnRequest.conversation_id,
                                      turns[t].response, now)
            /\ turns' = [turns EXCEPT ![t].pc = "done", ![t].result = "Ok",
                                      ![t].assistant_row = Len(memory')]
       ELSE /\ memory' = memory
            /\ turns' = [turns EXCEPT ![t].pc = "done", ![t].result = "Memory"]
    /\ UNCHANGED turnFrame

TurnsNext ==
    \/ \E t \in TurnIds : turn_chat(t)
    \/ \E t \in TurnIds, ok \in Bool : turn_get_conversation_returns(t, ok)
    \/ \E t \in TurnIds, ok \in Bool : turn_save_user_returns(t, ok)
    \/ \E t \in TurnIds : turn_llm_fails(t)
    \/ \E t \in TurnIds, content \in Responses, at_bound \in Bool :
          turn_llm_returns(t, content, at_bound)
    \/ \E t \in TurnIds, ok \in Bool : turn_save_assistant_returns(t, ok)

(***************************************************************************)
(* Specifications                                                          *)
(***************************************************************************)
Init == RegistryInit /\ ChatInit /\ FnIdle /\ LockInit

SpecRegistry == Init /\ [][RegistryNext]_vars

SpecChat == Init /\ [][ChatNext]_vars

\* every awaited call of a turn returns
\* every pair of versions compared
SpecVersion == VersionInit /\ [][VersionNext]_vars

\* every manifest registered on a new registry
SpecManifest == ManifestInit /\ [][ManifestNext]_vars

\* the lifecycle of three plugins and the execution of their tools
SpecLifecycle == Init /\ [][LifecycleNext]_vars

\* the requests that share one loader behind its lock
SpecShared == Init /\ [][SharedNext]_vars

\* every response text of a bounded set, extracted
SpecExtract == ExtractInit /\ [][ExtractNext]_vars

\* the system prompt of every request of a bounded set
SpecPrompt == PromptInit /\ [][PromptNext]_vars

\* every call of execute on a capability, of a bounded set
SpecCapability == CapabilityInit /\ [][CapabilityNext]_vars

\* messages saved and read back while the clock runs
SpecMemory == MemoryInit /\ [][MemoryNext]_vars

SpecChatFair == SpecChat /\ WF_vars(ChatNext)

\* turns in progress together on one conversation
SpecTurns == Init /\ [][TurnsNext]_vars


(***************************************************************************)
(* Properties of the registry                                              *)
(***************************************************************************)
\* what plugin id contributes to all_tools(): its declared tools while it is
\* Active, nothing otherwise
Contribution(pl, id) ==
    IF pl[id].state = "Active" THEN SeqBag(pl[id].plugin.tools) ELSE EmptyBag

RECURSIVE Contributions(_, _)
Contributions(pl, S) ==
    IF S = {} THEN EmptyBag
    ELSE LET id == CHOOSE x \in S : TRUE
         IN Contribution(pl, id) (+) Contributions(pl, S \ {id})

\* C1: after any sequence of registry operations all_tools() holds the tools
\* of a plugin if and only if the plugin is Active: all_tools() is the sum of
\* the declared tools of the Active plugins; a registration adds a Registered
\* plugin and leaves all_tools() as it was; a successful initialization adds
\* exactly the declared tools of the plugin; disabling takes exactly them away.
Theorem_C1 ==
    /\ [](all_tools = Contributions(plugins, DOMAIN plugins))
    /\ [][\A id \in DOMAIN plugins' \ DOMAIN plugins :
            /\ plugins'[id].state = "Registered"
            /\ all_tools' = all_tools]_vars
    /\ [][\A id \in DOMAIN plugins :
            (plugins[id].state = "Initializing" /\ plugins'[id].state = "Active")
            => all_tools' = all_tools (+) SeqBag(plugins[id].plugin.tools)]_vars
    /\ [][\A id \in DOMAIN plugins :
            (plugins[id].state = "Active" /\ plugins'[id].state = "Disabled")
            => all_tools = all_tools' (+) SeqBag(plugins[id].plugin.tools)]_vars

\* C1's case: a is Active and its tools are listed, b was disabled and e is
\* only registered, and neither contributes
Witness_C1 ==
    /\ op = Idle
    /\ DOMAIN plugins = {IdA, IdB, IdE}
    /\ plugins[IdA].state = "Active"
    /\ plugins[IdB].state = "Disabled"
    /\ plugins[IdE].state = "Registered"
    /\ ret.op = "disable_plugin" /\ ret.arg = IdB /\ ret.res = Ok
    /\ all_tools = SeqBag(PluginA.tools)

\* the state changes of the lifecycle, each with the operations that make it
Transitions ==
    {<<"Registered", "Initializing", "init">>,
     <<"Initializing", "Active", "init">>,
     <<"Initializing", "Error", "init">>,
     <<"Active", "Disabled", "disable">>,
     <<"Disabled", "Active", "enable">>,
     <<"Active", "ShuttingDown", "shutdown">>,
     <<"Disabled", "ShuttingDown", "shutdown">>,
     <<"ShuttingDown", "Registered", "shutdown">>}

\* the kind of the operation named o
KindOf(o) ==
    CASE o \in {"init_plugin", "init_all"} -> "init"
      [] o \in {"shutdown_plugin", "shutdown_all"} -> "shutdown"
      [] o = "enable_plugin" -> "enable"
      [] o = "disable_plugin" -> "disable"
      [] OTHER -> o

\* C2: a plugin's state changes only along Registered -> Initializing ->
\* Active | Error (init), Active -> Disabled (disable), Disabled -> Active
\* (enable), Active | Disabled -> ShuttingDown -> Registered (shutdown), each
\* made by the operation named; a plugin enters the registry as Registered and
\* never leaves it.
Theorem_C2 ==
    [][/\ \A id \in DOMAIN plugins :
            /\ id \in DOMAIN plugins'
            /\ plugins'[id].state # plugins[id].state
               => \E o \in {op.name, op'.name} :
                     <<plugins[id].state, plugins'[id].state, KindOf(o)>> \in Transitions
       /\ \A id \in DOMAIN plugins' \ DOMAIN plugins : plugins'[id].state = "Registered"
      ]_vars

\* C2's case: the plugin whose shutdown completed last is Active again
Witness_C2 ==
    /\ last_shutdown \in DOMAIN plugins
    /\ plugins[last_shutdown].state = "Active"

\* the registrations: register and register_with_config of p
Registers(p) == register(p) \/ \E c \in Configs : register_with_config(p, c)

\* C9: register() of a plugin whose id is already registered fails and leaves
\* the registry unchanged: the plugin map (the first plugin, its state, its
\* configuration and its load-order), the number of plugins and the load
\* counter are as before.
Theorem_C9 ==
    [][\A p \in Catalog :
          (Registers(p) /\ p.manifest.id \in DOMAIN plugins)
          => /\ ret'.res # Ok
             /\ plugins' = plugins
             /\ Cardinality(DOMAIN plugins') = len
             /\ load_counter' = load_counter
      ]_vars

\* C9's case: PluginA2 was refused as already registered while a holds
\* PluginA, registered with a configuration and since initialized
Witness_C9 ==
    /\ ret.op = "register"
    /\ ret.plugin = PluginA2
    /\ ret.res = <<"ExecutionFailed", "already registered">>
    /\ plugins[IdA].plugin = PluginA
    /\ plugins[IdA].config = "cfg1"
    /\ plugins[IdA].state = "Active"
    /\ load_counter = len

\* every dependency of manifest m is registered in pl with a compatible version
DependenciesMet(pl, m) ==
    \A d \in DOMAIN m.dependencies :
        /\ d \in DOMAIN pl
        /\ is_compatible_with(pl[d].plugin.manifest.version, m.dependencies[d])

\* C10: register() of a plugin with dependencies fails unless each of them is
\* registered with a compatible version; when it fails nothing is registered
\* (plugin map and load counter unchanged), and when it succeeds every
\* dependency was registered and compatible.
Theorem_C10 ==
    [][\A p \in Catalog :
          (Registers(p) /\ DOMAIN p.manifest.dependencies # {})
          => /\ ~ DependenciesMet(plugins, p.manifest)
                => (ret'.res # Ok /\ plugins' = plugins /\ load_counter' = load_counter)
             /\ ret'.res = Ok
                => (DependenciesMet(plugins, p.manifest) /\ p.manifest.id \in DOMAIN plugins')
             /\ ret'.res # Ok
                => (plugins' = plugins /\ load_counter' = load_counter)
      ]_vars

\* C10's case: b, which needs a, is registered, and PluginC was refused for
\* the version of a or for z
Witness_C10 ==
    /\ IdB \in DOMAIN plugins
    /\ plugins[IdB].load_order > plugins[IdA].load_order
    /\ ret.op = "register"
    /\ ret.plugin = PluginC
    /\ ret.res = <<"ExecutionFailed", "requires version">>

(***************************************************************************)
(* Properties of a turn                                                    *)
(***************************************************************************)
\* the rows the turn has saved, and the row of its user message
SavedInTurn == SubSeq(memory, Len(InitialMemory) + 1, Len(memory))
UserRow == Row(conversation_id, Message("user", <<Text(request.message)>>), now)

\* the turn ended on an error of a collaborator (memory, provider)
CollaboratorFailed == result.kind \in {"Memory", "Provider"}

\* C3: a turn in which every response of the language model holds a valid
\* tool-call block fails with MaxIterationsExceeded after exactly
\* MAX_TOOL_ITERATIONS (10) calls of the language model: the turn does not end
\* otherwise while the last response holds a tool call, and when it fails so
\* the calls are 10, never fewer, never more.
Theorem_C3 ==
    /\ (pc = "done" /\ ~ CollaboratorFailed /\ CallsOf(response.content) # <<>>)
       => result.kind = "MaxIterationsExceeded"
    /\ result.kind = "MaxIterationsExceeded"
       => (llm_calls = MAX_TOOL_ITERATIONS /\ CallsOf(response.content) # <<>>)
    /\ (pc \in {"llm", "execute"} /\ CallsOf(response.content) # <<>>)
       => llm_calls <= MAX_TOOL_ITERATIONS

\* C3's case: the turn failed at the bound
Witness_C3 ==
    /\ pc = "done"
    /\ result.kind = "MaxIterationsExceeded"
    /\ llm_calls = 10
    /\ Len(tool_calls_made) = 10

\* C4: every turn terminates when every awaited call returns, with a final
\* result and after at most 10 calls of the language model.
Theorem_C4 ==
    /\ [](llm_calls <= MAX_TOOL_ITERATIONS)
    /\ [](pc = "done" => result.kind \in {"Ok", "Memory", "Provider", "MaxIterationsExceeded"})
    /\ (pc # "idle") ~> (pc = "done")

\* C4's case: a turn that took all 10 calls and succeeded
Witness_C4 ==
    /\ pc = "done"
    /\ result.kind = "Ok"
    /\ llm_calls = MAX_TOOL_ITERATIONS

\* C5: when a turn fails with MaxIterationsExceeded the only message it has
\* saved is its user message; no assistant message of the turn is in memory.
Theorem_C5 ==
    result.kind = "MaxIterationsExceeded"
    => /\ SavedInTurn = <<UserRow>>
       /\ SubSeq(memory, 1, Len(InitialMemory)) = InitialMemory
       /\ \A i \in 1..Len(SavedInTurn) : SavedInTurn[i].role # "assistant"

\* C5's case: a turn that failed at the bound after failed tool calls too
Witness_C5 ==
    /\ result.kind = "MaxIterationsExceeded"
    /\ Failures(tool_calls_made) = MaxFailures
    /\ Len(memory) = Len(InitialMemory) + 1

\* the content is one of the synthetic tool-call / tool-result messages
Synthetic(content) ==
    content # <<>> /\ content[1][1] \in {"Tool call", "Tool result"}

\* C6: a successful turn has saved exactly two messages, the user message
\* and then the final response, which holds no tool call; the user message is
\* in memory before the first call of the language model, the final response
\* is saved after the last; no synthetic message is ever saved.
Theorem_C6 ==
    /\ result.kind = "Ok"
       => /\ SavedInTurn = <<UserRow, Row(conversation_id, response, now)>>
          /\ response.role = "assistant"
          /\ CallsOf(response.content) = <<>>
          /\ result.message = response.content
    /\ llm_calls >= 1 => (SavedInTurn # <<>> /\ SavedInTurn[1] = UserRow)
    /\ Len(SavedInTurn) >= 2 => (pc = "done" /\ result.kind = "Ok")
    /\ \A i \in 1..Len(memory) : ~ Synthetic(memory[i].content)
    /\ SubSeq(memory, 1, Len(InitialMemory)) = InitialMemory

\* C6's case: a successful turn with three tool calls and their synthetic
\* messages in the working list
Witness_C6 ==
    /\ result.kind = "Ok"
    /\ Len(tool_calls_made) = 3
    /\ \E i \in 1..Len(messages) : Synthetic(messages[i].content)
    /\ Len(SavedInTurn) = 2

\* calls are JSON objects of the content, at increasing positions
RECURSIVE InOrderOfAppearance(_, _)
InOrderOfAppearance(calls, content) ==
    IF calls = <<>> THEN TRUE
    ELSE IF content = <<>> THEN FALSE
    ELSE IF Head(content) = Json(Head(calls).name, Head(calls).arguments)
    THEN InOrderOfAppearance(Tail(calls), Tail(content))
    ELSE InOrderOfAppearance(calls, Tail(content))

\* the last n elements of a sequence
LastN(seq, n) == SubSeq(seq, Len(seq) - n + 1, Len(seq))

\* C7: the tool calls of a response are dispatched in the order of their
\* blocks in the response, one at a time, and the summaries are one per
\* dispatched call, in dispatch order over all iterations.
Theorem_C7 ==
    LET calls == CallsOf(response.content)
        in_flight == IF pc = "execute" THEN 1 ELSE 0
        handed == Len(calls) - Len(pending) + in_flight
    IN
    /\ InOrderOfAppearance(calls, response.content)
    /\ Len(dispatched) = Len(tool_calls_made) + in_flight
    /\ \A i \in 1..Len(tool_calls_made) : tool_calls_made[i].name = dispatched[i].name
    /\ pc = "execute" => pending # <<>>
    /\ pc # "execute" => pending = <<>>
    /\ pc \in {"execute", "llm", "done"}
       => /\ handed \in 0..Len(dispatched)
          /\ pending = LastN(calls, Len(pending))
          /\ LastN(dispatched, handed) = SubSeq(calls, 1, handed)

\* C7's case: in a later iteration a response with two different calls has
\* been dispatched, first block first
Witness_C7 ==
    /\ pc = "llm"
    /\ iterations >= 3
    /\ Len(CallsOf(response.content)) = 2
    /\ Len(tool_calls_made) >= 4
    /\ LastN(tool_calls_made, 2) = <<ToolCallSummary("nonexistent_tool", FALSE),
                                     ToolCallSummary("read_file", TRUE)>>

\* what a step in which plugins.execute returns an error does, the loop's
\* next iteration left aside
ErrorDispatched ==
    LET call == Head(pending)
        rest == Tail(pending)
    IN
    /\ tool_calls_made' = Append(tool_calls_made, ToolCallSummary(call.name, FALSE))
    /\ messages' = messages \o
          <<ToolCallMessage(call),
            Message("system", <<<<"Tool result", call.name, "false", dispatch_result'[2]>>>>)>>
    /\ pending' = rest
    /\ memory' = memory
    /\ rest # <<>> => (pc' = "execute" /\ dispatched' = Append(dispatched, Head(rest)))

\* plugins.execute returns an error in this step
DispatchError ==
    /\ pc = "execute"
    /\ dispatch_result'[1] = "Err"
    /\ \/ tool_calls_made' # tool_calls_made
       \/ pending' # pending
       \/ pc' # pc

\* C8 as claimed: after a dispatch error the loop goes on to the next call of
\* the language model.
Claimed_C8 ==
    [][DispatchError
       => /\ ErrorDispatched
          /\ Tail(pending) = <<>> => (pc' = "llm" /\ llm_calls' = llm_calls + 1)
      ]_vars

\* C8, amended: a dispatch error never aborts the turn: it becomes a failed
\* ToolResult in the working list, a summary with success = false is recorded,
\* the remaining calls of the response are dispatched, and the loop goes on to
\* its next iteration: to the next call of the language model after one of
\* the first nine responses, to MaxIterationsExceeded after the tenth.
Theorem_C8 ==
    [][DispatchError
       => /\ ErrorDispatched
          /\ (Tail(pending) = <<>> /\ iterations < MAX_TOOL_ITERATIONS)
             => (pc' = "llm" /\ llm_calls' = llm_calls + 1 /\ result' = NoResult)
          /\ (Tail(pending) = <<>> /\ iterations >= MAX_TOOL_ITERATIONS)
             => (pc' = "done" /\ result'.kind = "MaxIterationsExceeded")
      ]_vars

\* C8's case: the first call of a response returned an error and the second
\* call of the response has been handed to the registry
Witness_C8 ==
    /\ pc = "execute"
    /\ dispatch_result = <<"Err", "Invalid parameters">>
    /\ tool_calls_made # <<>>
    /\ tool_calls_made[Len(tool_calls_made)] = ToolCallSummary("read_file", FALSE)
    /\ Len(CallsOf(response.content)) = 2
    /\ Len(pending) = 1

(***************************************************************************)
(* Properties of versions and manifests                                    *)
(***************************************************************************)
\* C11: self.is_compatible_with(req) is true iff self.major = req.major and
\* (self.minor > req.minor or (self.minor = req.minor and
\* self.patch >= req.patch)); so 1.2.3 satisfies 1.2.0 and 1.2.3 but neither
\* 1.3.0 nor 2.0.0, and 1.2.0 does not satisfy 1.2.3.
Theorem_C11 ==
    value # NoValue
    => LET self == args[1]
           req == args[2]
       IN
       /\ value[1] = (/\ self.major = req.major
                      /\ \/ self.minor > req.minor
                         \/ (self.minor = req.minor /\ self.patch >= req.patch))
       /\ args = <<Version(1, 2, 3), Version(1, 2, 0)>> => value[1] = TRUE
       /\ args = <<Version(1, 2, 3), Version(1, 2, 3)>> => value[1] = TRUE
       /\ args = <<Version(1, 2, 3), Version(1, 3, 0)>> => value[1] = FALSE
       /\ args = <<Version(1, 2, 3), Version(2, 0, 0)>> => value[1] = FALSE
       /\ args = <<Version(1, 2, 0), Version(1, 2, 3)>> => value[1] = FALSE

\* C11's case: 1.2.0 was compared with the required 1.2.3
Witness_C11 ==
    /\ args = <<Version(1, 2, 0), Version(1, 2, 3)>>
    /\ value = <<FALSE>>

\* the characters [A-Za-z0-9._-] among those of the model
AsciiIdChars == {"a", "b", "c", "e", "z", "A", "7", ".", "-", "_"}

\* C12: register() accepts a manifest only if id, name and description are
\* non-empty and every character of the id is in [A-Za-z0-9._-]; when it does
\* not accept, nothing is registered.
Claimed_C12 ==
    (ret.op = "register" /\ args # NoArgs)
    => LET m == args[1] IN
       /\ ret.res = Ok
          => /\ m.id # <<>>
             /\ m.name # ""
             /\ m.description # ""
             /\ \A i \in 1..Len(m.id) : m.id[i] \in AsciiIdChars
       /\ ret.res # Ok => (DOMAIN plugins = {} /\ load_counter = 0)

(***************************************************************************)
(* Properties of the bulk operations                                       *)
(***************************************************************************)
\* the plugins in state st registered after plugin id (larger load_order)
LaterIn(pl, id, st) ==
    {x \in DOMAIN pl : pl[x].load_order > pl[id].load_order /\ pl[x].state = st}

\* the plugins in state st registered before plugin id (smaller load_order)
EarlierIn(pl, id, st) ==
    {x \in DOMAIN pl : pl[x].load_order < pl[id].load_order /\ pl[x].state = st}

\* x has the smallest load_order of the plugins S
FirstOf(pl, S, x) == x \in S /\ \A y \in S : pl[x].load_order <= pl[y].load_order

\* x has the largest load_order of the plugins S
LastOf(pl, S, x) == x \in S /\ \A y \in S : pl[x].load_order >= pl[y].load_order

\* the plugins in state st
InState(pl, st) == {x \in DOMAIN pl : pl[x].state = st}

\* C13: init_all() calls on_init of the Registered plugins in ascending
\* load-order, one after the other, and is fail-fast: when an on_init fails,
\* that plugin alone moves to Error, init_all returns the error at once, the
\* plugins before it that were initialized stay Active and the plugins after
\* it are left as they are, in Registered.
Theorem_C13 ==
    /\ [](op.name = "init_all"
          => /\ plugins[op.cur].state = "Initializing"
             /\ EarlierIn(plugins, op.cur, "Registered") = {}
             /\ \A x \in LaterIn(plugins, op.cur, "Registered") :
                   \E i \in 1..Len(op.queue) : op.queue[i] = x)
    /\ [][(op = Idle /\ op'.name = "init_all")
          => /\ FirstOf(plugins, InState(plugins, "Registered"), op'.cur)
             /\ plugins' = SetState(plugins, op'.cur, "Initializing")
      ]_vars
    /\ [][(op.name = "init_all" /\ op' # op)
          => LET cur == op.cur
                 rest == LaterIn(plugins, cur, "Registered")
             IN
             \/ /\ plugins' = SetState(plugins, cur, "Error")
                /\ op' = Idle
                /\ ret'.op = "init_all"
                /\ ret'.res # Ok
             \/ /\ rest = {}
                /\ plugins' = SetState(plugins, cur, "Active")
                /\ op' = Idle
                /\ ret'.op = "init_all"
                /\ ret'.res = Ok
             \/ /\ op'.name = "init_all"
                /\ FirstOf(plugins, rest, op'.cur)
                /\ plugins' = SetState(SetState(plugins, cur, "Active"),
                                       op'.cur, "Initializing")
      ]_vars

\* C13's case: init_all returned the error of b's on_init; a, registered
\* before b, is Active and e, registered after b, is still Registered
Witness_C13 ==
    /\ ret.op = "init_all"
    /\ ret.res # Ok
    /\ DOMAIN plugins = {IdA, IdB, IdE}
    /\ plugins[IdA].state = "Active"
    /\ plugins[IdB].state = "Error"
    /\ plugins[IdE].state = "Registered"
    /\ plugins[IdA].load_order < plugins[IdB].load_order
    /\ plugins[IdB].load_order < plugins[IdE].load_order

\* the plugins shutdown_plugin acts on: Active or Disabled
Running(pl) == InState(pl, "Active") \cup InState(pl, "Disabled")

\* the Running plugins registered before plugin id
RunningBefore(pl, id) == {x \in Running(pl) : pl[x].load_order < pl[id].load_order}

\* C14: shutdown_all() calls on_shutdown of the Active and Disabled plugins
\* in descending load-order and is best-effort: whether an on_shutdown fails
\* or not, its plugin is set to Registered and the next one is shut down;
\* shutdown_all returns Ok and leaves no plugin Active, Disabled or
\* ShuttingDown.
Theorem_C14 ==
    /\ [](op.name = "shutdown_all"
          => /\ plugins[op.cur].state = "ShuttingDown"
             /\ \A x \in Running(plugins) :
                   /\ plugins[x].load_order < plugins[op.cur].load_order
                   /\ \E i \in 1..Len(op.queue) : op.queue[i] = x)
    /\ [](ret.op = "shutdown_all" => ret.res = Ok)
    /\ [][(op = Idle /\ op'.name = "shutdown_all")
          => /\ LastOf(plugins, Running(plugins), op'.cur)
             /\ plugins' = SetState(plugins, op'.cur, "ShuttingDown")
      ]_vars
    /\ [][(op = Idle /\ ret' # ret /\ ret'.op = "shutdown_all")
          => (Running(plugins) = {} /\ plugins' = plugins)
      ]_vars
    /\ [][(op.name = "shutdown_all" /\ op' # op)
          => LET cur == op.cur
                 rest == RunningBefore(plugins, cur)
             IN
             \/ /\ rest = {}
                /\ plugins' = SetState(plugins, cur, "Registered")
                /\ op' = Idle
                /\ ret'.op = "shutdown_all"
                /\ ret'.res = Ok
                /\ Running(plugins') = {}
                /\ InState(plugins', "ShuttingDown") = {}
             \/ /\ op'.name = "shutdown_all"
                /\ LastOf(plugins, rest, op'.cur)
                /\ plugins' = SetState(SetState(plugins, cur, "Registered"),
                                       op'.cur, "ShuttingDown")
      ]_vars

\* C14's case: shutdown_all has returned after three plugins were Active or
\* Disabled; all are Registered, e, registered last, was shut down first and a
\* last
Witness_C14 ==
    /\ ret.op = "shutdown_all"
    /\ ret.res = Ok
    /\ DOMAIN plugins = {IdA, IdB, IdE}
    /\ \A x \in DOMAIN plugins : plugins[x].state = "Registered"
    /\ last_shutdown = IdA
    /\ plugins[IdA].load_order < plugins[IdB].load_order
    /\ plugins[IdB].load_order < plugins[IdE].load_order

(***************************************************************************)
(* Properties of the Error state and of execute                            *)
(***************************************************************************)
\* C15: Error is terminal: once a plugin is in Error no registry operation
\* changes its state or starts the await of one of its hooks, no operation
\* suspended in a hook is one of a plugin in Error, and the tools that
\* all_tools() returns are those of the plugins not in Error (of the Active
\* ones), so execute() never finds it.
Theorem_C15 ==
    /\ [][\A id \in InState(plugins, "Error") :
             /\ id \in DOMAIN plugins'
             /\ plugins'[id] = plugins[id]
             /\ (op' # op /\ op' # Idle) => op'.cur # id
      ]_vars
    /\ [](op # Idle => plugins[op.cur].state # "Error")
    /\ [](/\ InState(plugins, "Error") \cap Listed(plugins) = {}
          /\ all_tools = Contributions(plugins, DOMAIN plugins \ InState(plugins, "Error"))
          /\ \A tool \in ExecutedTools :
                FoundForTool(plugins, tool) \cap InState(plugins, "Error") = {})

\* C15's case: b is in Error, every later operation was tried on it (the
\* last shutdown completed was a's, registered before b), and execute has
\* just refused b_tool as not found
Witness_C15 ==
    /\ IdB \in DOMAIN plugins
    /\ plugins[IdB].state = "Error"
    /\ plugins[IdA].state = "Active"
    /\ last_shutdown = IdA
    /\ ret.op = "execute"
    /\ ret.tool = "b_tool"
    /\ ret.res = <<"ToolNotFound", "b_tool">>

\* plugin id of registry pl lists the tool
Lists(pl, id, tool) == tool \in {pl[id].plugin.tools[i] : i \in 1..Len(pl[id].plugin.tools)}

\* C16: execute(tool) returns ToolNotFound whenever no Active plugin lists the
\* tool, however many plugins are Active, so also when only Registered,
\* Disabled or Error plugins list it; and execute never calls a hook or the
\* execute of a plugin that is not Active or does not list the tool.
Theorem_C16 ==
    /\ [][\A tool \in ExecutedTools :
             (/\ loader_execute(tool)
              /\ \A id \in DOMAIN plugins :
                    Lists(plugins, id, tool) => plugins[id].state # "Active")
             => /\ ret'.op = "execute"
                /\ ret'.res = <<"ToolNotFound", tool>>
                /\ ret'.called = <<>>
                /\ op' = Idle
      ]_vars
    /\ [](op.name = "execute"
          => /\ op.cur \in DOMAIN plugins
             /\ plugins[op.cur].state = "Active"
             /\ Lists(plugins, op.cur, op.tool))
    /\ []((ret.op = "execute" /\ ret.called # <<>>) => ret.arg # NoId)

\* C16's case: shared_tool is not found while e is Active, a, which lists it,
\* is Disabled and b, which lists it too, is in Error
Witness_C16 ==
    /\ ret.op = "execute"
    /\ ret.res = <<"ToolNotFound", "shared_tool">>
    /\ DOMAIN plugins = {IdA, IdB, IdE}
    /\ plugins[IdA].state = "Disabled"
    /\ plugins[IdB].state = "Error"
    /\ plugins[IdE].state = "Active"

\* the hooks of a dispatch, in the order of the calls
HookOrder == <<"before_execute", "execute", "after_execute">>

\* C17: on a match execute calls before_execute, then the plugin's execute,
\* then after_execute, in that order and on the same plugin; when
\* before_execute fails neither execute nor after_execute is called and
\* execute returns the failure of before_execute.
Theorem_C17 ==
    /\ [](op.name = "execute"
          => /\ op.called = SubSeq(HookOrder, 1, Len(op.called))
             /\ op.called # <<>>
             /\ op.hook = op.called[Len(op.called)])
    /\ []((ret.op = "execute" /\ ret.arg # NoId)
          => /\ ret.called = SubSeq(HookOrder, 1, Len(ret.called))
             /\ ret.called # <<>>
             /\ ret.res[1] = "Ok" => (ret.called = HookOrder /\ ret.result # NoResultYet)
             /\ ret.called # HookOrder => ret.result = NoResultYet)
    /\ [][(op.name = "execute" /\ op'.name = "execute" /\ op' # op)
          => /\ op'.cur = op.cur
             /\ op'.tool = op.tool
             /\ op'.called = SubSeq(HookOrder, 1, Len(op.called) + 1)
      ]_vars
    /\ [][before_execute_returns(FALSE)
          => /\ op' = Idle
             /\ ret'.op = "execute"
             /\ ret'.arg = op.cur
             /\ ret'.called = <<"before_execute">>
             /\ ret'.res = <<"HookFailed", "before_execute">>
      ]_vars

\* C17's case: a dispatch of b_tool to b went through the three calls
Witness_C17 ==
    /\ ret.op = "execute"
    /\ ret.arg = IdB
    /\ ret.tool = "b_tool"
    /\ ret.called = HookOrder
    /\ ret.result = <<ToolSuccess("output")>>
    /\ ret.res = <<"Ok", ToolSuccess("output")>>

Outcomes(tool, called, r) ==
    IF called = <<"before_execute">> THEN {<<"HookFailed", "before_execute">>}
    ELSE IF called = <<"before_execute", "execute">> THEN {<<"ExecutionFailed", tool>>}
    ELSE IF called = HookOrder /\ r # NoResultYet
    THEN {<<"Ok", r[1]>>, <<"HookFailed", "after_execute">>}
    ELSE {}

\* C19: requires_confirmation is advisory: the dispatch of a tool to an
\* Active plugin whose manifest sets it is only logged; before_execute,
\* execute and after_execute are called and execute returns what it returns
\* for a plugin with the flag unset, the outcome that the hooks and the
\* plugin's execute decide.
Theorem_C19 ==
    /\ [][\A tool \in ExecutedTools :
             (loader_execute(tool) /\ FoundForTool(plugins, tool) # {})
             => /\ op'.name = "execute"
                /\ op'.hook = "before_execute"
                /\ op'.cur \in FoundForTool(plugins, tool)
                /\ op'.warned = plugins[op'.cur].plugin.manifest.requires_confirmation
                /\ ret' = ret
      ]_vars
    /\ []((ret.op = "execute" /\ ret.arg # NoId)
          => /\ ret.warned = plugins[ret.arg].plugin.manifest.requires_confirmation
             /\ ret.res \in Outcomes(ret.tool, ret.called, ret.result))

\* C19's case: b requires confirmation and its b_tool was executed, with the
\* three calls and the plugin's result returned
Witness_C19 ==
    /\ ret.op = "execute"
    /\ ret.arg = IdB
    /\ plugins[IdB].plugin.manifest.requires_confirmation
    /\ ret.warned
    /\ ret.called = HookOrder
    /\ ret.res = <<"Ok", ToolFailure("Access denied")>>

(***************************************************************************)
(* Properties of the shared loader                                         *)
(***************************************************************************)
\* the requests executing a method of the set M
RequestsIn(M) == {t \in RequestIds : running[t] \in M}

\* C20: the loader is behind one reader/writer lock: while a request executes
\* a structural method (register, init, shutdown, enable, disable) no other
\* request executes a structural method, a tool listing or a tool execution;
\* tool listings and tool executions of different requests may be in progress
\* together.
Theorem_C20 ==
    /\ \A t \in RequestsIn(Structural) :
          /\ guard[t] = "write"
          /\ \A u \in RequestIds \ {t} : running[u] = "none" /\ guard[u] \notin Held
    /\ \A t \in RequestsIn(Shared) : guard[t] \in Held
    /\ Cardinality({t \in RequestIds : guard[t] = "write"}) <= 1
    /\ (\E t \in RequestIds : guard[t] = "write")
       => \A u \in RequestIds : guard[u] # "read"

\* C20's case: every request is executing a shared method, tool executions
\* and a tool listing together
Witness_C20 ==
    /\ RequestsIn(Shared) = RequestIds
    /\ \E t \in RequestIds : running[t] = "all_tools"
    /\ Cardinality({t \in RequestIds : running[t] = "execute"}) >= 2

(***************************************************************************)
(* Properties of the extraction of tool calls                              *)
(***************************************************************************)
\* C21: a response text without the opening fence of a tool_call block
\* yields no tool calls, whatever else it contains (other fences, JSON
\* objects with a name and arguments).
Claimed_C21 ==
    (value # NoValue /\ \A i \in 1..Len(args[1]) : args[1][i] # Open)
    => value[1] = <<>>

\* the token is a JSON object with a string "name" and an object "arguments"
WellFormedCall(token) ==
    /\ Len(token) = 3
    /\ token[1] = "json"
    /\ token[2] \notin {Absent, NotAString}
    /\ token[3] = "{}"

\* position i of the content opens a well-formed tool_call block: the opening
\* fence, one well-formed JSON object, the closing fence
WellFormedBlockAt(content, i) ==
    /\ i + 2 <= Len(content)
    /\ content[i] = Open
    /\ WellFormedCall(content[i + 1])
    /\ content[i + 2] = Fence

\* the calls of the well-formed blocks of the content from position i on
RECURSIVE WellFormedCallsFrom(_, _)
WellFormedCallsFrom(content, i) ==
    IF i > Len(content) THEN <<>>
    ELSE (IF WellFormedBlockAt(content, i)
          THEN <<ToolCall(content[i + 1][2], content[i + 1][3])>>
          ELSE <<>>) \o WellFormedCallsFrom(content, i + 1)

\* C22: extraction never fails and returns exactly one ToolCall per
\* well-formed tool_call block of the response, in order of appearance, with
\* the block's name and arguments; malformed blocks are skipped and "no tool
\* calls" is reported only when no block is well-formed.
Claimed_C22 ==
    value # NoValue => value[1] = WellFormedCallsFrom(args[1], 1)

\* C23: a block is valid only if it is a JSON object with a "name" that is a
\* string and an "arguments" that is an object: no call with another name or
\* with arguments that are a number, string, array or null is extracted.
Claimed_C23 ==
    value # NoValue
    => \A i \in 1..Len(value[1]) :
          /\ value[1][i].name \notin {Absent, NotAString}
          /\ value[1][i].arguments = "{}"

\* the messages saved under id, in the order of the save_message calls
SavedUnder(mem, id) ==
    LET rows == SelectSeq(mem, LAMBDA r : r.conversation_id = id)
    IN [k \in 1..Len(rows) |-> Message(rows[k].role, rows[k].content)]

\* C24: get_conversation(id) returns exactly the messages saved for id, in the
\* order save_message was called (the empty list for an id never saved under),
\* also when several of them were saved within one clock second
Claimed_C24 ==
    value # NoValue => value[1] = SavedUnder(memory, args[1])

\* C25: a load-order index is assigned once, at a successful registration, and
\* is never changed or reused: every step keeps the index of every registered
\* plugin, gives a newly registered plugin an index above all earlier ones,
\* leaves the indices pairwise distinct, and a step that registers nothing
\* (a rejected registration among them) consumes no index
Theorem_C25 ==
    [][LET before == DOMAIN plugins
           after == DOMAIN plugins'
       IN /\ \A id \in before :
                /\ id \in after
                /\ plugins'[id].load_order = plugins[id].load_order
          /\ \A id \in after \ before :
                /\ plugins'[id].load_order = load_counter'
                /\ \A o \in before : plugins[o].load_order < plugins'[id].load_order
          /\ \A a, b \in after :
                (a # b) => (plugins'[a].load_order # plugins'[b].load_order)
          /\ (after = before) => (load_counter' = load_counter)]_vars

\* a registration is rejected after two plugins were registered, and a third
\* is registered after a rejection
Witness_C25 ==
    /\ Cardinality(DOMAIN plugins) >= 3
    /\ ret.op = "register"
    /\ ret.res # Ok
    /\ load_counter = Cardinality(DOMAIN plugins)

\* C26: the explicit system prompt of the request wins over its persona, and
\* the persona over the engine's own system prompt
Theorem_C26 ==
    value # NoValue
    => LET engine == args[1]
           req == args[2]
       IN /\ req.system_prompt # None => value[1] = <<Text(req.system_prompt)>>
          /\ (req.system_prompt = None /\ req.persona # Nothing)
             => value[1] = resolve_persona(req.persona[1])
          /\ (req.system_prompt = None /\ req.persona = Nothing) => value[1] = engine

\* a request with both an explicit prompt and a persona, on an engine with
\* its own prompt, was resolved to the explicit prompt
Witness_C26 ==
    /\ value # NoValue
    /\ args[2].system_prompt # None
    /\ args[2].persona = Some(analyst)
    /\ args[1] # default_system_prompt
    /\ value[1] = <<Text(args[2].system_prompt)>>

\* the names that are name but for the case of their letters
SameButCase(a, b) ==
    /\ Len(a) = Len(b)
    /\ \A i \in 1..Len(a) :
          \/ a[i] = b[i]
          \/ \E k \in 1..26 : {a[i], b[i]} = {UpperCase[k], LowerCase[k]}

Offered ==
    LET tools == IF args[1] = "filesystem" THEN build_tools(args[2]) ELSE api_tools(args[2])
    IN {tools[i] : i \in 1..Len(tools)}

\* C28: execute(tool_name, arguments) of a capability fails with ToolNotFound
\* when tool_name is not among the names the same instance returns from
\* tools(): the filesystem capability in every configuration (write_file while
\* writes are not allowed among them) and the REST capability
Claimed_C28 ==
    (value # NoValue /\ args[3] \notin Offered)
    => value[1].ret = <<"Err", "ToolNotFound">>

\* C29: a write_file called with a path and a content while allow_write is
\* false returns a failed ToolResult, whatever the path, and no call of
\* write_file while allow_write is false writes or changes the file tree
Theorem_C29 ==
    (/\ value # NoValue
     /\ args[1] = "filesystem"
     /\ args[3] = "write_file"
     /\ ~args[2].allow_write)
    => /\ value[1].tree = Tree
       /\ value[1].io = <<>>
       /\ (args[4].path # Nothing /\ args[4].content # Nothing)
          => /\ value[1].ret[1] = "Ok"
             /\ ~value[1].ret[2].success

\* a write into an allowed root was refused while writes are disabled
Witness_C29 ==
    /\ value # NoValue
    /\ args[1] = "filesystem"
    /\ args[3] = "write_file"
    /\ args[2] = FilesystemConfig(<<<<"allowed">>>>, FALSE, MaxFileSize)
    /\ args[4] = [path |-> Some(<<"allowed", "new.txt">>), content |-> Some("data")]
    /\ value[1].ret[1] = "Ok"
    /\ ~value[1].ret[2].success
    /\ value[1].tree = Tree

\* the path resolves to an allowed root or to an entry below one: the entry
\* it leads to, which may not exist yet, is reached by resolving every
\* symbolic link on the way
ResolvesBelowRoot(self, tree, path) ==
    LET entry == IF canonicalize(tree, path) # Nothing THEN canonicalize(tree, path)
                 ELSE create(tree, path, MaxSymlinks)
    IN /\ entry # Nothing
       /\ \E i \in 1..Len(self.allowed_paths) :
             /\ canonicalize(tree, self.allowed_paths[i]) # Nothing
             /\ starts_with(entry[1], canonicalize(tree, self.allowed_paths[i])[1])

\* C30: read_file, list_directory and write_file on a path that does not
\* resolve to an allowed root or below one (every path when no root is
\* allowed) return a failed ToolResult whose error contains "Access denied",
\* and read, list and write nothing
Claimed_C30 ==
    (/\ value # NoValue
     /\ args[1] = "filesystem"
     /\ args[3] \in {"read_file", "list_directory", "write_file"}
     /\ args[4].path # Nothing
     /\ args[3] = "write_file" => args[4].content # Nothing
     /\ ~ResolvesBelowRoot(args[2], Tree, args[4].path[1]))
    => /\ value[1].ret[1] = "Ok"
       /\ ~value[1].ret[2].success
       /\ \E i \in 1..Len(value[1].ret[2].error) : value[1].ret[2].error[i] = "Access denied"
       /\ value[1].io = <<>>
       /\ value[1].tree = Tree

\* C31: the boundary of the iteration bound. A response without tool calls
\* ends the turn: it is saved and returned as the final message, after k + 1
\* calls of the language model when the k responses before it held tool calls,
\* for every k from 0 to 9 (a further call of the language model is made only
\* after a response with tool calls). The turn fails with
\* MaxIterationsExceeded only after 10 calls whose responses all held tool
\* calls.
Theorem_C31 ==
    /\ [](result.kind = "Ok"
          => /\ CallsOf(response.content) = <<>>
             /\ result.message = response.content
             /\ llm_calls \in 1..MAX_TOOL_ITERATIONS)
    /\ [](result.kind = "MaxIterationsExceeded"
          => /\ llm_calls = MAX_TOOL_ITERATIONS
             /\ CallsOf(response.content) # <<>>)
    /\ [][/\ (llm_calls' # llm_calls)
             => /\ llm_calls' = llm_calls + 1
                /\ (llm_calls > 0) => (CallsOf(response.content) # <<>>)
          /\ (pc = "llm" /\ pc' # "done")
             => ((CallsOf(response'.content) = <<>>) <=> (pc' = "save_assistant"))
          /\ (pc = "save_assistant" /\ pc' = "done")
             => /\ result'.kind \in {"Ok", "Memory"}
                /\ llm_calls' = llm_calls]_vars

\* the case k = 9: nine responses with tool calls, the tenth without, returned
Witness_C31 ==
    /\ result.kind = "Ok"
    /\ llm_calls = 10
    /\ Len(tool_calls_made) >= 9
    /\ result.message = response.content
    /\ CallsOf(response.content) = <<>>

\* C32: when a turn fails with MaxIterationsExceeded, the tool calls of all 10
\* responses, those of the tenth among them, have been dispatched and have
\* returned: the loop comes back to its top, where the bound is checked and
\* the language model is called, only after every tool call of the response
\* was dispatched, and nothing dispatched is taken back.
Theorem_C32 ==
    /\ [](result.kind = "MaxIterationsExceeded"
          => /\ llm_calls = MAX_TOOL_ITERATIONS
             /\ pending = <<>>
             /\ Len(dispatched) >= MAX_TOOL_ITERATIONS
             /\ Len(tool_calls_made) = Len(dispatched)
             /\ Len(dispatched) >= Len(CallsOf(response.content))
             /\ LastN(dispatched, Len(CallsOf(response.content))) = CallsOf(response.content))
    /\ [][/\ (pc = "execute" /\ pc' # "execute")
             => /\ pending' = <<>>
                /\ Len(tool_calls_made') = Len(dispatched')
                /\ Len(dispatched') >= Len(CallsOf(response.content))
                /\ LastN(dispatched', Len(CallsOf(response.content)))
                   = CallsOf(response.content)
          /\ SubSeq(dispatched', 1, Len(dispatched)) = dispatched
          /\ SubSeq(tool_calls_made', 1, Len(tool_calls_made)) = tool_calls_made]_vars

\* the turn failed at the bound after a tenth response with two tool calls
Witness_C32 ==
    /\ result.kind = "MaxIterationsExceeded"
    /\ Len(CallsOf(response.content)) = 2
    /\ Len(dispatched) > MAX_TOOL_ITERATIONS
    /\ LastN(dispatched, 2) = CallsOf(response.content)

\* C33: the transient states are not seen between registry operations: when
\* no operation that changes the registry is in progress (every one has
\* returned, and a tool may be listed or executed), each plugin is Registered,
\* Active, Disabled or Error, never Initializing or ShuttingDown.
Theorem_C33 ==
    (op = Idle \/ op.name = "execute")
    => \A id \in DOMAIN plugins :
          plugins[id].state \in {"Registered", "Active", "Disabled", "Error"}

\* init_all has returned the error of an on_init, and a shutdown_plugin whose
\* on_shutdown was called had returned before
Witness_C33 ==
    /\ op = Idle
    /\ ret.op = "init_all"
    /\ ret.res # Ok
    /\ \E id \in DOMAIN plugins : plugins[id].state = "Error"
    /\ last_shutdown # NoId

\* C34 as claimed: after any sequence of registry operations every Active
\* plugin has all of its declared dependencies Active too
Claimed_C34 ==
    op = Idle
    => \A id \in DOMAIN plugins :
          plugins[id].state = "Active"
          => \A d \in DOMAIN plugins[id].plugin.manifest.dependencies :
                d \in DOMAIN plugins /\ plugins[d].state = "Active"

\* C34: after any sequence of registry operations every Active plugin has all
\* of its declared dependencies registered, in whatever state: they are looked
\* at when the plugin is registered and not afterwards
Theorem_C34 ==
    \A id \in DOMAIN plugins :
       plugins[id].state = "Active"
       => \A d \in DOMAIN plugins[id].plugin.manifest.dependencies : d \in DOMAIN plugins

\* b is Active and a, which it depends on, is registered and not Active
Witness_C34 ==
    /\ op = Idle
    /\ IdB \in DOMAIN plugins
    /\ plugins[IdB].state = "Active"
    /\ IdA \in DOMAIN plugins[IdB].plugin.manifest.dependencies
    /\ plugins[IdA].state \in {"Disabled", "Error", "Registered"}

\* C35: in every state of the registry each declared dependency of a
\* registered plugin is registered with a smaller load-order than the
\* dependent; so while init_all awaits the on_init of a plugin none of its
\* dependencies is still to come, and while shutdown_all awaits the
\* on_shutdown of a plugin none of its dependents is still to come.
Theorem_C35 ==
    LET deps(id) == DOMAIN plugins[id].plugin.manifest.dependencies
        to_come == {op.queue[i] : i \in 1..Len(op.queue)}
    IN /\ \A id \in DOMAIN plugins : \A d \in deps(id) :
             /\ d \in DOMAIN plugins
             /\ plugins[d].load_order < plugins[id].load_order
       /\ (op.name = "init_all" /\ op.hook = "on_init")
          => \A d \in deps(op.cur) : d \notin to_come
       /\ (op.name = "shutdown_all" /\ op.hook = "on_shutdown")
          => \A id \in to_come : op.cur \notin deps(id)

\* init_all awaits the on_init of b after it has made a, which b depends on,
\* Active
Witness_C35 ==
    /\ op.name = "init_all"
    /\ op.hook = "on_init"
    /\ op.cur = IdB
    /\ IdA \in DOMAIN plugins[IdB].plugin.manifest.dependencies
    /\ plugins[IdA].state = "Active"
    /\ plugins[IdA].load_order < plugins[IdB].load_order

\* C36: an init_all after one that was aborted by a failing on_init does not
\* try the plugin in Error again. In every step of an init_all a plugin that
\* is in Error, Active or Disabled keeps its state and its on_init is not
\* awaited; the on_init awaited is that of a Registered plugin, of smaller
\* load-order than those still to come; and when init_all returns after
\* initializations that succeeded it returns Ok and has left no plugin
\* Registered, whatever plugins are in Error.
Theorem_C36 ==
    [][(op.name = "init_all" \/ op'.name = "init_all")
       => /\ \A id \in DOMAIN plugins :
                plugins[id].state \in {"Error", "Active", "Disabled"}
                => /\ plugins'[id].state = plugins[id].state
                   /\ (op' # op /\ op' # Idle) => op'.cur # id
          /\ (op' # op /\ op' # Idle)
             => /\ plugins[op'.cur].state = "Registered"
                /\ \A i \in 1..Len(op'.queue) :
                      plugins[op'.cur].load_order < plugins[op'.queue[i]].load_order
          /\ (op' = Idle /\ plugins'[op.cur].state = "Active")
             => /\ ret' = Returned("init_all", NoId, NoPlugin, Ok)
                /\ \A id \in DOMAIN plugins' : plugins'[id].state # "Registered"]_vars

\* an init_all has returned Ok with a in Error, not tried again, and b,
\* registered after a, made Active
Witness_C36 ==
    /\ op = Idle
    /\ ret = Returned("init_all", NoId, NoPlugin, Ok)
    /\ IdA \in DOMAIN plugins
    /\ IdB \in DOMAIN plugins
    /\ plugins[IdA].state = "Error"
    /\ plugins[IdB].state = "Active"

\* C37: an on_enable or on_disable that fails leaves the plugin as it was and
\* its error is returned: after a failed on_enable the plugin is still
\* Disabled, after a failed on_disable it is still Active, its tools listed
\* by all_tools and found by execute.
Theorem_C37 ==
    [][/\ (op.hook = "on_enable" /\ op' = Idle /\ ret'.res # Ok)
          => /\ plugins' = plugins
             /\ plugins'[op.cur].state = "Disabled"
             /\ ret' = Returned("enable_plugin", op.cur, NoPlugin, <<"HookFailed", "on_enable">>)
       /\ (op.hook = "on_disable" /\ op' = Idle /\ ret'.res # Ok)
          => /\ plugins' = plugins
             /\ plugins'[op.cur].state = "Active"
             /\ ret' = Returned("disable_plugin", op.cur, NoPlugin,
                                <<"HookFailed", "on_disable">>)
             /\ \A i \in 1..Len(plugins[op.cur].plugin.tools) :
                   /\ plugins[op.cur].plugin.tools[i] \in DOMAIN all_tools'
                   /\ op.cur \in FoundForTool(plugins', plugins[op.cur].plugin.tools[i])]_vars

\* disable_plugin has returned the error of on_disable, and the plugin is
\* Active
Witness_C37 ==
    /\ op = Idle
    /\ ret.op = "disable_plugin"
    /\ ret.res = <<"HookFailed", "on_disable">>
    /\ plugins[ret.arg].state = "Active"
    /\ ret.arg \in FoundForTool(plugins, plugins[ret.arg].plugin.tools[1])

\* the states from which a lifecycle operation on one plugin acts
SourceStates ==
    [init_plugin |-> {"Registered"}, enable_plugin |-> {"Disabled"},
     disable_plugin |-> {"Active"}, shutdown_plugin |-> {"Active", "Disabled"}]

\* C38: init_plugin, enable_plugin, disable_plugin and shutdown_plugin on a
\* plugin that is not in a source state of the operation return Ok at once,
\* change no plugin and call no hook (a hook is awaited only for a plugin in a
\* source state); on an id that is not registered they return PluginNotFound
\* and change nothing.
Theorem_C38 ==
    [][/\ (op = Idle /\ op' = Idle /\ ret'.op \in DOMAIN SourceStates)
          => /\ plugins' = plugins
             /\ load_counter' = load_counter
             /\ IF ret'.arg \in DOMAIN plugins
                THEN /\ plugins[ret'.arg].state \notin SourceStates[ret'.op]
                     /\ ret'.res = Ok
                ELSE ret'.res = <<"PluginNotFound">>
       /\ (op = Idle /\ op' # Idle /\ op'.name \in DOMAIN SourceStates)
          => /\ op'.cur \in DOMAIN plugins
             /\ plugins[op'.cur].state \in SourceStates[op'.name]]_vars

\* enable_plugin on a plugin that is Registered has returned Ok, and the
\* plugin is Registered
Witness_C38 ==
    /\ op = Idle
    /\ ret = Returned("enable_plugin", IdA, NoPlugin, Ok)
    /\ IdA \in DOMAIN plugins
    /\ plugins[IdA].state = "Registered"

\* C39: a turn that fails after its user message was saved, because
\* Provider::from_name rejects the provider name (unknown or not configured)
\* or because a call of the language model fails at any iteration, returns the
\* error, has saved no assistant message and leaves the user message in memory;
\* a turn whose history could not be loaded has saved nothing.
Theorem_C39 ==
    [][/\ (pc = "save_user" /\ pc' = "done" /\ memory' # memory)
          => /\ from_name(request.provider) \in {"UnknownProvider", "NotConfigured"}
             /\ result'.kind = "Provider"
             /\ memory' = InitialMemory \o <<UserRow>>
       /\ (pc = "llm" /\ pc' = "done")
          => /\ result'.kind = "Provider"
             /\ llm_calls' = iterations
             /\ memory' = InitialMemory \o <<UserRow>>
       /\ (pc = "get_conversation" /\ pc' = "done")
          => /\ result'.kind = "Memory"
             /\ memory' = InitialMemory
       /\ (pc = "done" /\ result.kind \in {"Provider", "Memory"})
          => memory' = memory]_vars

\* C39's case: the language model failed on its third call, after two rounds
\* of tool calls; the user message is the only row of the turn
Witness_C39 ==
    /\ pc = "done"
    /\ result.kind = "Provider"
    /\ from_name(request.provider) = "Ok"
    /\ iterations = 3
    /\ Len(tool_calls_made) >= 2
    /\ memory = InitialMemory \o <<UserRow>>

\* the row ids the turns got back from save_message
RowsOf(t) == {turns[t].user_row, turns[t].assistant_row} \ {0}

\* C40: however concurrent turns on one conversation id interleave, every
\* successful turn has added exactly one user row and one assistant row of its
\* own to the conversation, the user row before the assistant row; no turn
\* that failed has an assistant row, and the table holds the rows of the turns
\* and nothing else. Rows of sibling turns may lie between the two, and the
\* history a turn loaded may lack a sibling's rows (Witness_C40).
Theorem_C40 ==
    /\ \A t \in TurnIds :
          /\ turns[t].result = "Ok"
             => /\ 0 < turns[t].user_row
                /\ turns[t].user_row < turns[t].assistant_row
                /\ turns[t].assistant_row <= Len(memory)
                /\ memory[turns[t].user_row] =
                     Row(TurnRequest.conversation_id,
                         Message("user", <<Text(TurnRequest.message)>>), now)
                /\ memory[turns[t].assistant_row] =
                     Row(TurnRequest.conversation_id, turns[t].response, now)
                /\ turns[t].response.role = "assistant"
          /\ turns[t].assistant_row > 0 => turns[t].result = "Ok"
          /\ \A u \in TurnIds \ {t} : RowsOf(t) \cap RowsOf(u) = {}
    /\ Len(memory) = Len(InitialMemory)
                      + Cardinality({t \in TurnIds : turns[t].user_row > 0})
                      + Cardinality({t \in TurnIds : turns[t].assistant_row > 0})
    /\ SubSeq(memory, 1, Len(InitialMemory)) = InitialMemory

\* C40's case: two successful turns whose rows alternate; the second turn
\* loaded its history before the first saved its user message and so built
\* its messages without it, though that row precedes its own
Witness_C40 ==
    /\ turns[1].result = "Ok"
    /\ turns[2].result = "Ok"
    /\ turns[1].user_row < turns[2].user_row
    /\ turns[2].user_row < turns[1].assistant_row
    /\ turns[1].assistant_row < turns[2].assistant_row
    /\ Len(turns[2].history) = Len(turns[1].history)

====
